---- MODULE Spec2Model ----
(***************************************************************************)
(* The training pipeline orchestrator of netspresso-trainer:               *)
(* BasePipeline.__init__, set_train and train of                           *)
(* src/src/netspresso_trainer/pipelines/base.py, with TrainingSummary.     *)
(* One process (one rank) is modelled; its configuration, its rank and the *)
(* resume checkpoint it is given are chosen at construction / set_train.   *)
(***************************************************************************)
EXTENDS Integers, Sequences, FiniteSets, TLC

\* ---------------------------------------------------------------- bounds
MaxEpochs == 3      \* largest conf.training.epochs explored
MaxLast == 3        \* largest last_epoch of a persisted summary explored
MaxRank == 1        \* largest distributed rank explored
MaxFreq == 4        \* largest VALID_FREQ the predicate is evaluated for
MaxFreqEpochs == 12 \* number of consecutive epochs it is evaluated at
MaxBatches == 4     \* largest number of batches of the eval dataloader
MaxLoss == 2        \* largest validation loss of an epoch of a run
MaxKeys == 3        \* largest number of epochs of a valid_losses mapping
MaxSamples == 2     \* largest number of samples of a batch
MaxSteps == 2       \* largest number of batches of a loader in a distributed run
MaxClock == 3       \* latest wall-clock second of a Timer run
MaxCalls == 4       \* largest number of calls made on a Timer
MaxVersion == 3     \* largest index of a version directory that exists at a call
MaxLevels == 2      \* largest number of feature-map levels of an anchor generator
MaxPerLevel == 2    \* largest number of sizes, and of aspect ratios, of a level
MaxGrid == 2        \* largest height and width of a feature map
MaxForward == 3     \* largest number of forward calls on an anchor generator

\* ------------------------------------------------------ program constants
VALID_FREQ == 1
NUM_SAMPLES == 16

VARIABLES
    START_EPOCH_ZERO_OR_ONE, \* the loggers' numbering convention, 0 or 1
    conf,                  \* [epochs, distributed]
    rank,                  \* torch.distributed.get_rank() of this process
    model,                 \* TRUE iff self.model is not None
    optimizer,             \* [set, param_groups, loaded]
    scheduler,             \* [set, last_epoch]
    start_epoch,           \* self.start_epoch
    start_epoch_at_one,    \* self.start_epoch_at_one, a bool kept as 0 / 1
    training_history,      \* ordered dict, as the sequence of its items
    metric,                \* [set, epoch]: self.loss / self.metric aggregators
    timer,                 \* state of the 'train_all' record
    phase,                 \* lifecycle of the pipeline object
    pc,                    \* position inside train()
    num_epoch,             \* loop variable of train()
    epoch_iter,            \* values the range of the for statement still yields
    time_for_epoch,        \* "unbound" until line 206 assigned it
    with_valid_logging,    \* local of train(), assigned at line 201
    resume,                \* the argument set_train was called with
    train_log,             \* records handed to self.train_logger
    app_log,               \* records of the module logger (warning / error)
    checkpoints,           \* number of _save_checkpoint calls that completed
    summaries,             \* summaries written by _save_summary, in order
    raised,                \* exception that left set_train / train, or "none"
    raised_at,             \* pc at which an exception arrived in the try block
    trace,                 \* events of the run, in order
    probe                  \* inputs and results of a function studied alone

\* what construction fixes
config == << START_EPOCH_ZERO_OR_ONE, conf, rank, model >>
\* what set_train writes
setup == << optimizer, scheduler, start_epoch, start_epoch_at_one, resume >>
\* the locals of train() and the objects it rebuilds
locals == << num_epoch, epoch_iter, time_for_epoch, with_valid_logging,
            metric, timer >>
\* what the run hands to the logger sink and to storage
outputs == << train_log, checkpoints, summaries >>

\* the state of a pipeline run
run == << config, setup, locals, outputs, training_history, app_log, phase,
         pc, raised, raised_at, trace >>

vars == << run, probe >>

\* ------------------------------------------------------------- helpers
Last(s) == s[Len(s)]

RECURSIVE SumSeq(_)
SumSeq(s) == IF s = << >> THEN 0 ELSE Head(s) + SumSeq(Tail(s))

\* range(a, b) of Python as a sequence
Range(a, b) == [i \in 1..(IF b > a THEN b - a ELSE 0) |-> a + i - 1]

\* No function is studied alone during a pipeline run.
NoProbe == [op |-> "none"]

NoResume == [kind |-> "none", last_epoch |-> 0, start_epoch_at_one |-> 0]


\* ---------------------------------------------- scheduler and optimizer
\* The learning rates the scheduler writes into the two parameter groups
\* when its counter is c: a scheduler that changes lr on every step.
SchedulerValues(c) == << 2 * (c + 1), 4 * (c + 1) >>

\* build_scheduler: the counter starts at 0.
SchedulerInit == [set |-> TRUE, last_epoch |-> 0]

\* scheduler.step(): one more step.
SchedulerStepNext(s) == [s EXCEPT !.last_epoch = s.last_epoch + 1]

\* scheduler.step(epoch=k): the counter is set to k.
SchedulerStepTo(s, k) == [s EXCEPT !.last_epoch = k]

\* statistics.mean over the parameter groups' lr
learning_rate ==
    IF optimizer.param_groups = << >> THEN 0
    ELSE SumSeq(optimizer.param_groups) \div Len(optimizer.param_groups)

\* An event of the run: what was done, in which epoch, and the optimizer's
\* learning rate at that moment.
Event(op, e) == [op |-> op, epoch |-> e, lr |-> learning_rate]

\* ----------------------------------------------------------- __init__
always_rank_zero == TRUE
single_gpu_or_rank_zero ==
    (~conf.distributed) \/ (conf.distributed /\ rank = 0)

\* lambda e: e % VALID_FREQ == self.start_epoch_at_one % VALID_FREQ, as a
\* function of the module constant and the attribute it reads
ValidLoggingFromZero(e, freq, at_one) == e % freq = 0
ValidLoggingAt(e, freq, at_one) == e % freq = at_one % freq

epoch_with_valid_logging(e) ==
    ValidLoggingAt(e, VALID_FREQ, start_epoch_at_one)

\* The pipeline object after __init__, for every configuration explored.
Constructed ==
    /\ START_EPOCH_ZERO_OR_ONE \in {0, 1}
    /\ conf \in [epochs : 1..MaxEpochs, distributed : BOOLEAN]
    /\ rank \in 0..MaxRank
    /\ (~conf.distributed => rank = 0)
    /\ model \in BOOLEAN
    /\ optimizer = [set |-> FALSE, param_groups |-> << >>, loaded |-> FALSE]
    /\ scheduler = [set |-> FALSE, last_epoch |-> 0]
    /\ start_epoch_at_one = START_EPOCH_ZERO_OR_ONE
    /\ start_epoch = START_EPOCH_ZERO_OR_ONE
    /\ training_history = << >>
    /\ metric = [set |-> FALSE, epoch |-> 0]
    /\ timer = "none"
    /\ phase = "CONSTRUCTED"
    /\ pc = "idle"
    /\ num_epoch = 0
    /\ epoch_iter = << >>
    /\ time_for_epoch = "unbound"
    /\ with_valid_logging = FALSE
    /\ resume = NoResume
    /\ train_log = << >>
    /\ app_log = << >>
    /\ checkpoints = 0
    /\ summaries = << >>
    /\ raised = "none"
    /\ raised_at = "none"
    /\ trace = << >>

Init == Constructed /\ probe = NoProbe

\* ---------------------------------------------------------- set_train
\* The resume_training_checkpoint arguments explored: None, a path that does
\* not exist, a file holding the summary a previous run persisted.
ResumeArgs ==
    {NoResume}
    \cup {[kind |-> "missing", last_epoch |-> 0, start_epoch_at_one |-> 0]}
    \cup {[kind |-> "existing", last_epoch |-> l, start_epoch_at_one |-> s] :
            l \in 0..MaxLast, s \in {0, 1}}

\* A summary a run can have persisted: its last epoch is one it executed.
Persistable(r) == r.kind = "existing" => r.last_epoch >= r.start_epoch_at_one

\* "Start from the next to the end of last training"
ResumeStartEpochSame(summary) == summary.last_epoch
ResumeStartEpoch(summary) == summary.last_epoch + 1

\* build_optimizer and build_scheduler
BuiltOptimizer ==
    [set |-> TRUE, param_groups |-> SchedulerValues(0), loaded |-> FALSE]

SetTrainAssertFails ==
    /\ phase = "CONSTRUCTED"
    /\ ~model
    /\ phase' = "FAILED"
    /\ raised' = "AssertionError"
    /\ UNCHANGED << probe, config, setup, locals, outputs, training_history, app_log,
                    pc, raised_at, trace >>

SetTrainFresh ==
    /\ phase = "CONSTRUCTED"
    /\ model
    /\ resume' = NoResume
    /\ optimizer' = BuiltOptimizer
    /\ scheduler' = SchedulerInit
    /\ phase' = "READY"
    /\ UNCHANGED << probe, config, start_epoch, start_epoch_at_one, locals, outputs,
                    training_history, app_log, pc, raised, raised_at, trace >>

\* The path does not exist: the warning is logged, and torch.load of the
\* same path then raises FileNotFoundError.
SetTrainMissing ==
    /\ phase = "CONSTRUCTED"
    /\ model
    /\ \E r \in ResumeArgs : r.kind = "missing" /\ resume' = r
    /\ optimizer' = BuiltOptimizer
    /\ scheduler' = SchedulerInit
    /\ app_log' = Append(app_log, "warning: checkpoint path is not found")
    /\ raised' = "FileNotFoundError"
    /\ phase' = "FAILED"
    /\ UNCHANGED << probe, config, start_epoch, start_epoch_at_one, locals, outputs,
                    training_history, pc, raised_at, trace >>

\* The branch with the history of the loaded summary taken over
SetTrainResumeWithHistory ==
    /\ phase = "CONSTRUCTED"
    /\ model
    /\ \E r \in ResumeArgs :
         /\ r.kind = "existing"
         /\ Persistable(r)
         /\ resume' = r
         /\ optimizer' = [BuiltOptimizer EXCEPT
                            !.loaded = TRUE,
                            !.param_groups = SchedulerValues(ResumeStartEpoch(r))]
         /\ scheduler' = SchedulerStepTo(SchedulerInit, ResumeStartEpoch(r))
         /\ start_epoch_at_one' = r.start_epoch_at_one
         /\ start_epoch' = ResumeStartEpoch(r)
         /\ training_history' =
               [i \in 1..(r.last_epoch + 1 - r.start_epoch_at_one) |->
                  [epoch |-> r.start_epoch_at_one + i - 1, valid |-> TRUE,
                   valid_loss |-> 1]]
    /\ phase' = "READY"
    /\ UNCHANGED << probe, config, locals, outputs, app_log, pc,
                    raised, raised_at, trace >>

\* resume_training_checkpoint names a file: the optimizer state, the start
\* epoch and the epoch numbering are taken from it
SetTrainResume ==
    /\ phase = "CONSTRUCTED"
    /\ model
    /\ \E r \in ResumeArgs :
         /\ r.kind = "existing"
         /\ Persistable(r)
         /\ resume' = r
         /\ optimizer' = [BuiltOptimizer EXCEPT
                            !.loaded = TRUE,
                            !.param_groups = SchedulerValues(ResumeStartEpoch(r))]
         /\ scheduler' = SchedulerStepTo(SchedulerInit, ResumeStartEpoch(r))
         /\ start_epoch_at_one' = r.start_epoch_at_one
         /\ start_epoch' = ResumeStartEpoch(r)
    /\ phase' = "READY"
    /\ UNCHANGED << probe, config, locals, outputs, training_history, app_log, pc,
                    raised, raised_at, trace >>

set_train ==
    \/ SetTrainAssertFails
    \/ SetTrainFresh
    \/ SetTrainMissing
    \/ SetTrainResume

\* --------------------------------------------------------------- train
\* _is_ready: both assertions pass.
IsReadyAlways == TRUE
IsReady == model /\ optimizer.set

\* The statements of one iteration of the epoch loop, in program order.
EpochOrderStepFirst ==
    << "start_record", "build", "train_one_epoch", "validate", "end_record",
       "scheduler_step", "log_end_epoch" >>
EpochOrder ==
    << "start_record", "build", "train_one_epoch", "validate", "end_record",
       "log_end_epoch", "scheduler_step" >>

\* The statements after the loop, in program order.
CompletionOrder == << "end_train_all", "log_end_of_traning",
                      "save_checkpoint", "save_summary" >>

InLoop(p) == p = "for" \/ \E i \in 1..Len(EpochOrder) : EpochOrder[i] = p
InBody(p) == \E i \in 1..Len(EpochOrder) : EpochOrder[i] = p
InCompletion(p) == \E i \in 1..Len(CompletionOrder) : CompletionOrder[i] = p
InTry(p) == InLoop(p) \/ InCompletion(p)

IndexIn(seq, p) == CHOOSE i \in 1..Len(seq) : seq[i] = p

\* The statement that follows p inside the loop body; the loop head after
\* the last one.
AfterInBody(p) ==
    IF IndexIn(EpochOrder, p) = Len(EpochOrder) THEN "for"
    ELSE EpochOrder[IndexIn(EpochOrder, p) + 1]

AfterInCompletion(p) ==
    IF IndexIn(CompletionOrder, p) = Len(CompletionOrder) THEN "return"
    ELSE CompletionOrder[IndexIn(CompletionOrder, p) + 1]

\* range(self.start_epoch, self.conf.training.epochs + self.start_epoch_at_one)
LoopStopNoOffset == conf.epochs
LoopStop == conf.epochs + start_epoch_at_one

\* train() up to the for statement: the train_all timer, _is_ready, and the
\* range of the loop, which is evaluated once.
TrainBegin ==
    /\ phase \in {"CONSTRUCTED", "READY"}
    /\ pc = "idle"
    /\ timer' = "started"
    /\ trace' = Append(trace, Event("train", 0))
    /\ IF IsReady
         THEN /\ phase' = "RUNNING"
              /\ pc' = "for"
              /\ epoch_iter' = Range(start_epoch, LoopStop)
              /\ UNCHANGED raised
         ELSE /\ phase' = "FAILED"
              /\ pc' = "raise"
              /\ raised' = "AssertionError"
              /\ UNCHANGED epoch_iter
    /\ UNCHANGED << probe, config, setup, num_epoch, time_for_epoch,
                    with_valid_logging, metric, outputs, training_history,
                    app_log, raised_at >>

\* The for statement: the next value of the range, or the end of the loop.
ForHead ==
    /\ phase = "RUNNING"
    /\ pc = "for"
    /\ IF epoch_iter # << >>
         THEN /\ num_epoch' = Head(epoch_iter)
              /\ epoch_iter' = Tail(epoch_iter)
              /\ pc' = EpochOrder[1]
         ELSE /\ pc' = CompletionOrder[1]
              /\ UNCHANGED << num_epoch, epoch_iter >>
    /\ UNCHANGED << probe, config, setup, time_for_epoch, with_valid_logging,
                    metric, timer, outputs, training_history, app_log, phase,
                    raised, raised_at, trace >>

\* self.timer.start_record(name=f'train_epoch_{num_epoch}')
StartRecord ==
    /\ phase = "RUNNING"
    /\ pc = "start_record"
    /\ trace' = Append(trace, Event("start_record", num_epoch))
    /\ pc' = AfterInBody("start_record")
    /\ UNCHANGED << probe, config, setup, locals, outputs, training_history,
                    app_log, phase, raised, raised_at >>

\* self.loss = build_losses(...); self.metric = build_metrics(...)
Build ==
    /\ phase = "RUNNING"
    /\ pc = "build"
    /\ metric' = [set |-> TRUE, epoch |-> num_epoch]
    /\ trace' = Append(trace, Event("build", num_epoch))
    /\ pc' = AfterInBody("build")
    /\ UNCHANGED << probe, config, setup, num_epoch, epoch_iter, time_for_epoch,
                    with_valid_logging, timer, outputs, training_history,
                    app_log, phase, raised, raised_at >>

\* self.train_one_epoch(): the pass over the training dataloader, every
\* train_step of which steps the optimizer with the current learning rate.
TrainOneEpoch ==
    /\ phase = "RUNNING"
    /\ pc = "train_one_epoch"
    /\ trace' = Append(trace, Event("train_one_epoch", num_epoch))
    /\ pc' = AfterInBody("train_one_epoch")
    /\ UNCHANGED << probe, config, setup, locals, outputs, training_history,
                    app_log, phase, raised, raised_at >>

\* with_valid_logging = self.epoch_with_valid_logging(num_epoch)
\* valid_samples = self.validate() if with_valid_logging else None
Validate ==
    /\ phase = "RUNNING"
    /\ pc = "validate"
    /\ with_valid_logging' = epoch_with_valid_logging(num_epoch)
    /\ trace' = IF epoch_with_valid_logging(num_epoch)
                  THEN Append(trace, Event("validate", num_epoch))
                  ELSE trace
    /\ pc' = AfterInBody("validate")
    /\ UNCHANGED << probe, config, setup, num_epoch, epoch_iter, time_for_epoch,
                    metric, timer, outputs, training_history, app_log, phase,
                    raised, raised_at >>

\* self.timer.end_record(...); time_for_epoch = self.timer.get(..., as_pop=False)
EndRecord ==
    /\ phase = "RUNNING"
    /\ pc = "end_record"
    /\ time_for_epoch' = "bound"
    /\ trace' = Append(trace, Event("end_record", num_epoch))
    /\ pc' = AfterInBody("end_record")
    /\ UNCHANGED << probe, config, setup, num_epoch, epoch_iter, with_valid_logging,
                    metric, timer, outputs, training_history, app_log, phase,
                    raised, raised_at >>

\* self.loss.result('valid').get('total') of an epoch
EpochLosses == 1..MaxLoss

\* summary_record of log_end_epoch, under its epoch: the valid_* keys are
\* there only when valid_logging is true.
SummaryRecord(e, valid_logging, l) ==
    [epoch |-> e, valid |-> valid_logging,
     valid_loss |-> IF valid_logging THEN l ELSE 0]

\* self.training_history.update({epoch: summary_record}): a new key goes to
\* the end, an existing key keeps its place and takes the new record.
HistoryKeepLatest(h, rec) == << rec >>
HistoryUpdate(h, rec) ==
    IF \E i \in 1..Len(h) : h[i].epoch = rec.epoch
      THEN [i \in 1..Len(h) |-> IF h[i].epoch = rec.epoch THEN rec ELSE h[i]]
      ELSE Append(h, rec)

\* if self.single_gpu_or_rank_zero: self.log_end_epoch(...)
LogEndEpoch ==
    /\ phase = "RUNNING"
    /\ pc = "log_end_epoch"
    /\ IF single_gpu_or_rank_zero
         THEN /\ train_log' = Append(train_log,
                    [kind |-> "epoch", epoch |-> num_epoch,
                     learning_rate |-> learning_rate,
                     valid |-> with_valid_logging])
              /\ \E l \in EpochLosses :
                   training_history' = HistoryUpdate(training_history,
                      SummaryRecord(num_epoch, with_valid_logging, l))
              /\ trace' = Append(trace, Event("log_end_epoch", num_epoch))
         ELSE UNCHANGED << train_log, training_history, trace >>
    /\ pc' = AfterInBody("log_end_epoch")
    /\ UNCHANGED << probe, config, setup, locals, checkpoints, summaries, app_log,
                    phase, raised, raised_at >>

\* The statement with the step under the gate of the primary rank
SchedulerStepOnPrimaryOnly ==
    /\ phase = "RUNNING"
    /\ pc = "scheduler_step"
    /\ IF single_gpu_or_rank_zero
         THEN /\ scheduler' = SchedulerStepNext(scheduler)
              /\ optimizer' = [optimizer EXCEPT
                     !.param_groups =
                        SchedulerValues(SchedulerStepNext(scheduler).last_epoch)]
              /\ trace' = Append(trace, Event("scheduler_step", num_epoch))
         ELSE UNCHANGED << scheduler, optimizer, trace >>
    /\ pc' = AfterInBody("scheduler_step")
    /\ UNCHANGED << probe, config, start_epoch, start_epoch_at_one, resume, locals,
                    outputs, training_history, app_log, phase, raised,
                    raised_at >>

\* self.scheduler.step()  # call after reporting the current `learning_rate`
SchedulerStep ==
    /\ phase = "RUNNING"
    /\ pc = "scheduler_step"
    /\ scheduler' = SchedulerStepNext(scheduler)
    /\ optimizer' = [optimizer EXCEPT
           !.param_groups = SchedulerValues(SchedulerStepNext(scheduler).last_epoch)]
    /\ trace' = Append(trace, Event("scheduler_step", num_epoch))
    /\ pc' = AfterInBody("scheduler_step")
    /\ UNCHANGED << probe, config, start_epoch, start_epoch_at_one, resume, locals,
                    outputs, training_history, app_log, phase, raised,
                    raised_at >>

\* ------------------------------------------------------ TrainingSummary
\* The keys of train_losses / valid_losses as _save_summary builds them:
\* one per item of the history, in its order.
Keys(h) == [i \in 1..Len(h) |-> h[i].epoch]

\* valid_losses={epoch: value['valid_losses'].get('total') for ...}: the
\* items of the dict, in the order of the history
ValidLosses(h) ==
    [i \in 1..Len(h) |-> [epoch |-> h[i].epoch, loss |-> h[i].valid_loss]]

\* __post_init__: self.last_epoch = list(self.train_losses.keys())[-1]
LastEpochFirstKey(keys) == keys[1]
LastEpoch(keys) == keys[Len(keys)]

\* min(self.valid_losses, key=self.valid_losses.get): the keys are visited
\* in the order of the dict and a key replaces the best one only when its
\* loss is smaller; MinFrom is the index of the best of items[1..i-1]
\* carried on through items[i..].
RECURSIVE MinFromLast(_, _, _)
MinFromLast(items, best, i) ==
    IF i > Len(items) THEN best
    ELSE MinFromLast(items,
                     IF items[i].loss <= items[best].loss THEN i ELSE best,
                     i + 1)
RECURSIVE MinFrom(_, _, _)
MinFrom(items, best, i) ==
    IF i > Len(items) THEN best
    ELSE MinFrom(items,
                 IF items[i].loss < items[best].loss THEN i ELSE best,
                 i + 1)

BestEpochLastMinimal(items) == items[MinFromLast(items, 1, 2)].epoch
BestEpoch(items) == items[MinFrom(items, 1, 2)].epoch

\* TrainingSummary.__post_init__ on the keys of train_losses and the items
\* of valid_losses: the two fields it sets, or the exception it raises
\* (min() of an empty dict is a ValueError, [-1] of an empty list an
\* IndexError).
PostInitUnchecked(train_losses, valid_losses) ==
    [error |-> "none",
     best_epoch |-> IF valid_losses = << >> THEN 0
                    ELSE BestEpoch(valid_losses),
     last_epoch |-> IF train_losses = << >> THEN 0
                    ELSE LastEpoch(train_losses)]
PostInit(train_losses, valid_losses) ==
    IF valid_losses = << >>
      THEN [error |-> "ValueError", best_epoch |-> 0, last_epoch |-> 0]
    ELSE IF train_losses = << >>
      THEN [error |-> "IndexError", best_epoch |-> BestEpoch(valid_losses),
            last_epoch |-> 0]
    ELSE [error |-> "none", best_epoch |-> BestEpoch(valid_losses),
          last_epoch |-> LastEpoch(train_losses)]

\* The exception _save_summary ends with, "none" when it writes the file:
\* value['valid_losses'] of a record without validation is a KeyError,
\* self.metric.metric_names of an unset metric an AttributeError, and min()
\* over no valid_losses in __post_init__ a ValueError.
SummaryErrorOf(h, metric_set) ==
    IF \E i \in 1..Len(h) : ~h[i].valid THEN "KeyError"
    ELSE IF ~metric_set THEN "AttributeError"
    ELSE PostInit(Keys(h), ValidLosses(h)).error

SummaryError == SummaryErrorOf(training_history, metric.set)

TrainingSummary ==
    [total_epoch |-> conf.epochs,
     start_epoch_at_one |-> start_epoch_at_one,
     train_losses |-> Keys(training_history),
     valid_losses |-> ValidLosses(training_history),
     best_epoch |-> PostInit(Keys(training_history),
                             ValidLosses(training_history)).best_epoch,
     last_epoch |-> PostInit(Keys(training_history),
                             ValidLosses(training_history)).last_epoch,
     timer |-> timer]

\* ------------------------------------------------- the end of train()
\* self.timer.end_record(name='train_all'); logger.info("Total time ...")
EndTrainAll ==
    /\ phase = "RUNNING"
    /\ pc = "end_train_all"
    /\ timer' = "ended"
    /\ trace' = Append(trace, Event("end_train_all", num_epoch))
    /\ pc' = AfterInCompletion("end_train_all")
    /\ UNCHANGED << probe, config, setup, num_epoch, epoch_iter, time_for_epoch,
                    with_valid_logging, metric, outputs, training_history,
                    app_log, phase, raised, raised_at >>

\* log_end_of_traning(final_metrics={'time_for_last_epoch': time_for_epoch}):
\* reading time_for_epoch when no iteration assigned it is an
\* UnboundLocalError, which the except Exception clause logs and re-raises.
LogEndOfTraining ==
    /\ phase = "RUNNING"
    /\ pc = "log_end_of_traning"
    /\ IF ~single_gpu_or_rank_zero
         THEN /\ pc' = AfterInCompletion("log_end_of_traning")
              /\ UNCHANGED << train_log, app_log, phase, raised, raised_at,
                              trace >>
       ELSE IF time_for_epoch = "unbound"
         THEN /\ app_log' = Append(app_log, "error: exception")
              /\ raised' = "UnboundLocalError"
              /\ raised_at' = pc
              /\ phase' = "FAILED"
              /\ pc' = "raise"
              /\ UNCHANGED << train_log, trace >>
         ELSE /\ train_log' = Append(train_log,
                    [kind |-> "end", epoch |-> num_epoch,
                     learning_rate |-> learning_rate,
                     valid |-> with_valid_logging])
              /\ trace' = Append(trace, Event("log_end_of_traning", num_epoch))
              /\ pc' = AfterInCompletion("log_end_of_traning")
              /\ UNCHANGED << app_log, phase, raised, raised_at >>
    /\ UNCHANGED << probe, config, setup, locals, checkpoints, summaries,
                    training_history >>

\* self._save_checkpoint()
SaveCheckpoint ==
    /\ phase = "RUNNING"
    /\ pc = "save_checkpoint"
    /\ IF single_gpu_or_rank_zero
         THEN /\ checkpoints' = checkpoints + 1
              /\ trace' = Append(trace, Event("save_checkpoint", num_epoch))
         ELSE UNCHANGED << checkpoints, trace >>
    /\ pc' = AfterInCompletion("save_checkpoint")
    /\ UNCHANGED << probe, config, setup, locals, train_log, summaries,
                    training_history, app_log, phase, raised, raised_at >>

\* self._save_summary(), then train() returns; an exception of
\* _save_summary is logged and re-raised by the except Exception clause.
SaveSummary ==
    /\ phase = "RUNNING"
    /\ pc = "save_summary"
    /\ IF ~single_gpu_or_rank_zero
         THEN /\ phase' = "COMPLETED"
              /\ pc' = AfterInCompletion("save_summary")
              /\ UNCHANGED << summaries, app_log, raised, raised_at, trace >>
       ELSE IF SummaryError # "none"
         THEN /\ app_log' = Append(app_log, "error: exception")
              /\ raised' = SummaryError
              /\ raised_at' = pc
              /\ phase' = "FAILED"
              /\ pc' = "raise"
              /\ UNCHANGED << summaries, trace >>
         ELSE /\ summaries' = Append(summaries, TrainingSummary)
              /\ trace' = Append(trace, Event("save_summary", num_epoch))
              /\ phase' = "COMPLETED"
              /\ pc' = AfterInCompletion("save_summary")
              /\ UNCHANGED << app_log, raised, raised_at >>
    /\ UNCHANGED << probe, config, setup, locals, train_log, checkpoints,
                    training_history >>

\* ------------------------------------------------------ except clauses
\* except KeyboardInterrupt: the error is logged; the primary rank saves the
\* checkpoint and then the summary; the interrupt is raised again.  An
\* exception of _save_summary leaves the handler in its place.
KeyboardInterrupt ==
    /\ phase = "RUNNING"
    /\ InTry(pc)
    /\ raised_at' = pc
    /\ app_log' = Append(app_log, "error: keyboard interrupt")
    /\ IF ~single_gpu_or_rank_zero
         THEN /\ raised' = "KeyboardInterrupt"
              /\ UNCHANGED << checkpoints, summaries, trace >>
       ELSE IF SummaryError # "none"
         THEN /\ checkpoints' = checkpoints + 1
              /\ raised' = SummaryError
              /\ trace' = Append(trace, Event("save_checkpoint", num_epoch))
              /\ UNCHANGED summaries
         ELSE /\ checkpoints' = checkpoints + 1
              /\ summaries' = Append(summaries, TrainingSummary)
              /\ raised' = "KeyboardInterrupt"
              /\ trace' = Append(Append(trace,
                              Event("save_checkpoint", num_epoch)),
                              Event("save_summary", num_epoch))
    /\ phase' = "INTERRUPTED"
    /\ pc' = "raise"
    /\ UNCHANGED << probe, config, setup, locals, train_log, training_history >>

\* The exceptions other than KeyboardInterrupt that a statement of the try
\* block can raise.
OtherExceptions == {"RuntimeError", "OSError"}

OtherExceptionSaving ==
    /\ phase = "RUNNING"
    /\ InTry(pc)
    /\ \E e \in OtherExceptions : raised' = e
    /\ raised_at' = pc
    /\ app_log' = Append(app_log, "error: exception")
    /\ checkpoints' = checkpoints + 1
    /\ phase' = "FAILED"
    /\ pc' = "raise"
    /\ UNCHANGED << probe, config, setup, locals, train_log, summaries,
                    training_history, trace >>

\* except Exception: logger.error(str(e)); raise e
OtherException ==
    /\ phase = "RUNNING"
    /\ InTry(pc)
    /\ \E e \in OtherExceptions : raised' = e
    /\ raised_at' = pc
    /\ app_log' = Append(app_log, "error: exception")
    /\ phase' = "FAILED"
    /\ pc' = "raise"
    /\ UNCHANGED << probe, config, setup, locals, outputs, training_history, trace >>

train ==
    \/ TrainBegin
    \/ ForHead
    \/ StartRecord
    \/ Build
    \/ TrainOneEpoch
    \/ Validate
    \/ EndRecord
    \/ LogEndEpoch
    \/ SchedulerStep
    \/ EndTrainAll
    \/ LogEndOfTraining
    \/ SaveCheckpoint
    \/ SaveSummary
    \/ KeyboardInterrupt
    \/ OtherException

Next == set_train \/ train

Spec == Init /\ [][Next]_vars

\* A call of train() that has begun keeps executing: the interpreter runs
\* the next statement of the call until it returns or raises.
LiveSpec == Spec /\ WF_vars(train)

\* ================================================================ claims
\* The epochs whose iteration began, in order.
Executed ==
    LET starts == SelectSeq(trace, LAMBDA ev : ev.op = "start_record")
    IN  [i \in 1..Len(starts) |-> starts[i].epoch]

\* The epoch records handed to the logger sink, in order.
EpochLogs == SelectSeq(train_log, LAMBDA r : r.kind = "epoch")

\* The epoch loop ended without an exception.
LoopEnded ==
    \/ InCompletion(pc)
    \/ pc = "return"
    \/ (pc = "raise" /\ InCompletion(raised_at))

IsPrefix(a, b) == Len(a) <= Len(b) /\ \A i \in 1..Len(a) : a[i] = b[i]

\* The interrupt arrived inside the epoch loop and its handler has run.
InterruptedInLoop == phase = "INTERRUPTED" /\ InLoop(raised_at)

\* C1: an interrupt raised inside the epoch loop on the primary rank, in any
\* epoch, leaves exactly one checkpoint and exactly one summary persisted,
\* and the KeyboardInterrupt is what train() raises.
C1_InterruptPersistsOnce ==
    (InterruptedInLoop /\ single_gpu_or_rank_zero) =>
        /\ checkpoints = 1
        /\ Len(summaries) = 1
        /\ raised = "KeyboardInterrupt"

\* C2: the last_epoch of the summary persisted on the interrupt path is the
\* epoch of the last end-of-epoch record that was logged and appended to the
\* history (the last completed epoch); an epoch whose record was not yet
\* appended when the interrupt arrived is never the last_epoch, which is
\* then the epoch before it.
C2_LastEpochIsLastLogged ==
    (phase = "INTERRUPTED" /\ summaries # << >>) =>
        /\ EpochLogs # << >>
        /\ Last(summaries).last_epoch = Last(EpochLogs).epoch
        /\ Last(summaries).last_epoch
             = Last(training_history).epoch
        /\ (InBody(raised_at)
              /\ IndexIn(EpochOrder, raised_at)
                   <= IndexIn(EpochOrder, "log_end_epoch") =>
              /\ Last(summaries).last_epoch # num_epoch
              /\ Last(summaries).last_epoch = num_epoch - 1)

C2_Witness ==
    /\ InterruptedInLoop
    /\ summaries # << >>
    /\ InBody(raised_at)
    /\ Len(EpochLogs) >= 2
    /\ Last(summaries).last_epoch < num_epoch

\* C3 as stated: after set_train loaded a summary with last_epoch = L, the
\* start epoch is L + 1, start_epoch_at_one is the persisted value, and the
\* epoch loop of the following train() executes L + 1 first.
C3_FirstResumedEpoch ==
    (resume.kind = "existing" /\ LoopEnded) =>
        /\ start_epoch = resume.last_epoch + 1
        /\ start_epoch_at_one = resume.start_epoch_at_one
        /\ Executed # << >>
        /\ Executed[1] = resume.last_epoch + 1

\* C3 amended: after set_train loaded a summary with last_epoch = L, the
\* start epoch is L + 1 and start_epoch_at_one is the persisted value; the
\* following train() executes L + 1 first when L + 1 is below
\* epochs + start_epoch_at_one, and executes no epoch otherwise.
C3_ResumeStartsAfterLast ==
    resume.kind = "existing" =>
        /\ start_epoch = resume.last_epoch + 1
        /\ start_epoch_at_one = resume.start_epoch_at_one
        /\ (Executed # << >> => Executed[1] = resume.last_epoch + 1)
        /\ (LoopEnded =>
              (Executed # << >>
                 <=> resume.last_epoch + 1
                       < conf.epochs + resume.start_epoch_at_one))

C3_Witness ==
    /\ resume.kind = "existing"
    /\ resume.last_epoch >= 2
    /\ LoopEnded
    /\ Executed # << >>

\* C4 as stated: a train() whose loop ends has executed exactly the epochs
\* start_epoch .. start_epoch + total_epochs - 1, fresh or resumed.
C4_ExactlyTotalEpochs ==
    LoopEnded => Executed = Range(start_epoch, start_epoch + conf.epochs)

\* C4 amended: train() executes the epochs start_epoch, start_epoch + 1, ...
\* in increasing order up to epochs + start_epoch_at_one - 1: exactly
\* total_epochs epochs when the run is fresh, and
\* epochs + start_epoch_at_one - start_epoch epochs (none when that is not
\* positive) when it is resumed at start_epoch.
C4_EpochsUpToConfiguredEnd ==
    /\ IsPrefix(Executed, Range(start_epoch, conf.epochs + start_epoch_at_one))
    /\ (LoopEnded =>
          Executed = Range(start_epoch, conf.epochs + start_epoch_at_one))
    /\ (LoopEnded /\ resume.kind = "none" => Len(Executed) = conf.epochs)

C4_Witness ==
    /\ LoopEnded
    /\ resume.kind = "existing"
    /\ Len(Executed) >= 1
    /\ Len(Executed) < conf.epochs

\* C5: set_train with a path that does not exist logs a warning, raises
\* nothing, keeps the fresh start epoch and loads no optimizer state.
C5_MissingCheckpointIsFresh ==
    resume.kind = "missing" =>
        /\ \E i \in 1..Len(app_log) :
              app_log[i] = "warning: checkpoint path is not found"
        /\ raised = "none"
        /\ phase # "FAILED"
        /\ start_epoch = START_EPOCH_ZERO_OR_ONE
        /\ start_epoch_at_one = START_EPOCH_ZERO_OR_ONE
        /\ ~optimizer.loaded

\* The scheduler counter of a run that executed the epochs first .. last
\* without interruption: one scheduler.step() per epoch.
RECURSIVE ContiguousScheduler(_, _)
ContiguousScheduler(first, last) ==
    IF last < first THEN SchedulerInit
    ELSE SchedulerStepNext(ContiguousScheduler(first, last - 1))

\* C6: before the first epoch of a run resumed from last_epoch = L, the
\* scheduler counter is the one of an uninterrupted run through epoch L
\* (which a fresh run indeed has at each loop head); stated for a summary
\* persisted under the numbering convention of the resuming process.
C6_ResumedSchedulerCounter ==
    /\ (resume.kind = "none" /\ pc = "for" /\ Executed # << >> =>
          scheduler = ContiguousScheduler(start_epoch, num_epoch))
    /\ (resume.kind = "existing" /\ Executed = << >>
          /\ resume.start_epoch_at_one = START_EPOCH_ZERO_OR_ONE =>
          scheduler = ContiguousScheduler(resume.start_epoch_at_one,
                                          resume.last_epoch))

\* C7: the learning rate in the end-of-epoch record of epoch e is the rate
\* the optimizer had during the training pass of e, and on the primary rank
\* no scheduler.step() of e precedes the log of e.
C7_LoggedRateIsEpochRate ==
    /\ \A i \in 1..Len(EpochLogs) :
          \E j \in 1..Len(trace) :
             /\ trace[j].op = "train_one_epoch"
             /\ trace[j].epoch = EpochLogs[i].epoch
             /\ trace[j].lr = EpochLogs[i].learning_rate
    /\ \A j \in 1..Len(trace) :
          (trace[j].op = "scheduler_step" /\ single_gpu_or_rank_zero) =>
             \E k \in 1..(j - 1) :
                /\ trace[k].op = "log_end_epoch"
                /\ trace[k].epoch = trace[j].epoch

C7_Witness ==
    /\ Len(EpochLogs) >= 2
    /\ EpochLogs[1].learning_rate # EpochLogs[2].learning_rate
    /\ \E j \in 1..Len(trace) :
          trace[j].op = "scheduler_step" /\ trace[j].epoch = EpochLogs[2].epoch

\* C8: an exception other than KeyboardInterrupt raised inside the epoch
\* loop is logged and leaves train() as it was raised, and neither a
\* checkpoint nor a summary is written, on any rank.
C8_NoSaveOnOtherException ==
    (phase = "FAILED" /\ InLoop(raised_at)) =>
        /\ raised \in OtherExceptions
        /\ app_log # << >>
        /\ Last(app_log) = "error: exception"
        /\ checkpoints = 0
        /\ summaries = << >>

C8_Witness ==
    /\ phase = "FAILED"
    /\ InBody(raised_at)
    /\ raised \in OtherExceptions
    /\ single_gpu_or_rank_zero
    /\ training_history # << >>

\* C9: a process of a distributed run whose rank is not 0 never writes an
\* end-of-epoch record, a history entry, the final log entry, a checkpoint
\* or a summary, on the completion path and on the interrupt path.
C9_OnlyRankZeroWrites ==
    (conf.distributed /\ rank # 0) =>
        /\ train_log = << >>
        /\ training_history = << >>
        /\ checkpoints = 0
        /\ summaries = << >>

C9_Witness ==
    /\ conf.distributed
    /\ rank # 0
    /\ phase = "COMPLETED"
    /\ Len(Executed) >= 2

\* C10: train() with the model or the optimizer unset fails the assertion of
\* _is_ready before any epoch: no epoch starts, no train or validation pass
\* runs, the history stays empty and nothing is persisted.
C10_AssertionBeforeAnyEpoch ==
    (~model \/ ~optimizer.set) =>
        /\ phase # "RUNNING"
        /\ \A j \in 1..Len(trace) : trace[j].op = "train"
        /\ training_history = << >>
        /\ train_log = << >>
        /\ checkpoints = 0
        /\ summaries = << >>
        /\ (trace # << >> => phase = "FAILED" /\ raised = "AssertionError")

C10_Witness ==
    /\ model
    /\ ~optimizer.set
    /\ trace # << >>
    /\ raised = "AssertionError"

\* The terminal outcomes of train().
Terminal == {"COMPLETED", "INTERRUPTED", "FAILED"}

\* The steps of the lifecycle: set_train makes a constructed pipeline
\* ready, train makes a ready one running, and a running one ends in a
\* terminal outcome; a failed assertion or a failed set_train ends a
\* constructed pipeline as FAILED without its having run.
LifecycleEdges ==
    { << "CONSTRUCTED", "READY" >>, << "READY", "RUNNING" >>,
      << "CONSTRUCTED", "FAILED" >> }
      \cup { << "RUNNING", t >> : t \in Terminal }

\* C11: the lifecycle only takes the steps CONSTRUCTED -> READY (set_train)
\* -> RUNNING (train) -> one of COMPLETED, INTERRUPTED, FAILED: RUNNING is
\* never entered from CONSTRUCTED, a call of train() that has ended has
\* ended in one of the three terminal outcomes, a running call always ends
\* in one, and after a terminal outcome the outcome stays and no epoch is
\* executed.
C11_LifecycleOrder ==
    /\ [][ /\ (phase' # phase => << phase, phase' >> \in LifecycleEdges)
           /\ (phase' = "RUNNING" /\ phase # "RUNNING" => phase = "READY")
           /\ (phase \in Terminal =>
                 /\ phase' = phase
                 /\ Executed' = Executed
                 /\ training_history' = training_history)
           /\ (pc' \in {"return", "raise"} => phase' \in Terminal)
           /\ (pc' = "return" => phase' = "COMPLETED") ]_vars
    /\ ((phase = "RUNNING") ~> (phase \in Terminal))

C11_Witness ==
    /\ phase = "COMPLETED"
    /\ pc = "return"
    /\ conf.epochs >= 2
    /\ Len(Executed) = conf.epochs

\* The trace positions of the events of operation op.
Positions(op) == { i \in 1..Len(trace) : trace[i].op = op }

\* The final records handed to the logger sink.
EndLogs == SelectSeq(train_log, LAMBDA r : r.kind = "end")

\* train() has ended after a loop that ended without an exception, and
\* neither an interrupt nor an exception of a collaborator arrived in the
\* statements after the loop.
EndedAfterLoop ==
    /\ pc \in {"return", "raise"}
    /\ LoopEnded
    /\ phase # "INTERRUPTED"
    /\ raised \notin OtherExceptions

\* C12: whenever the epoch loop ends without an exception, for any number
\* of epochs left to run (zero included), the primary rank hands the final
\* record to the logger and then persists exactly one checkpoint and
\* exactly one summary, all after the train_all timer was stopped.
C12_CompletionPersistsOnce ==
    (EndedAfterLoop /\ single_gpu_or_rank_zero) =>
        /\ phase = "COMPLETED"
        /\ Len(EndLogs) = 1
        /\ checkpoints = 1
        /\ Len(summaries) = 1
        /\ \E t \in Positions("end_train_all") :
             \E l \in Positions("log_end_of_traning") :
               \E c \in Positions("save_checkpoint") :
                 \E w \in Positions("save_summary") :
                   t < l /\ l < c /\ c < w

\* ============================================== the orchestrator of
\* src/pipelines/base.py, the copy of BasePipeline outside the package
\* START_EPOCH_ZERO_OR_ONE = 1 is a module constant there; the copy keeps
\* no history and writes no checkpoint or summary.
LegacyEvent(op, e) == [op |-> op, epoch |-> e]

\* The statements of one iteration of its loop, in program order: the epoch
\* timer is stopped and read before the validation sweep.
LegacyEpochOrder ==
    << "start_record", "build", "train_one_epoch", "end_record", "validate",
       "log_end_epoch", "scheduler_step" >>

LegacyAfter(p) ==
    IF IndexIn(LegacyEpochOrder, p) = Len(LegacyEpochOrder) THEN "for"
    ELSE LegacyEpochOrder[IndexIn(LegacyEpochOrder, p) + 1]

\* self.epoch_with_valid_logging = lambda e: e % VALID_FREQ == START % VALID_FREQ
legacy_epoch_with_valid_logging(e) ==
    e % VALID_FREQ = START_EPOCH_ZERO_OR_ONE % VALID_FREQ

LegacyInit ==
    /\ Constructed
    /\ START_EPOCH_ZERO_OR_ONE = 1
    /\ model
    /\ \E online \in BOOLEAN, prof \in BOOLEAN :
         probe = [op |-> "legacy", pc |-> "idle", num_epoch |-> 0,
                  epoch_iter |-> << >>, is_online |-> online,
                  profile |-> prof, time_for_epoch |-> "unbound",
                  reports |-> 0, trace |-> << >>]

\* The locals after one statement of the copy's train(): the event the
\* statement leaves, if it happens, and the statement that follows.
LegacyAfterStatement(p, happens, next) ==
    [probe EXCEPT
       !.pc = next,
       !.trace = IF happens THEN Append(@, LegacyEvent(p, probe.num_epoch))
                 ELSE @]

\* self.timer.start_record(name='train_all'); self._is_ready(); range(...)
LegacyTrainBegin ==
    /\ probe.op = "legacy"
    /\ probe.pc = "idle"
    /\ probe' = [probe EXCEPT
                   !.pc = "for",
                   !.epoch_iter = Range(START_EPOCH_ZERO_OR_ONE,
                                   conf.epochs + START_EPOCH_ZERO_OR_ONE)]
    /\ UNCHANGED run

LegacyForHead ==
    /\ probe.op = "legacy"
    /\ probe.pc = "for"
    /\ probe' = IF probe.epoch_iter # << >>
                  THEN [probe EXCEPT !.num_epoch = Head(probe.epoch_iter),
                                     !.epoch_iter = Tail(@),
                                     !.pc = "start_record"]
                  ELSE [probe EXCEPT !.pc = "end_train_all"]
    /\ UNCHANGED run

LegacyStartRecord ==
    /\ probe.op = "legacy"
    /\ probe.pc = "start_record"
    /\ probe' = LegacyAfterStatement("start_record", TRUE,
                    "build")
    /\ UNCHANGED run

\* the aggregators are rebuilt; if self.profile: profile_one_epoch(); break
LegacyBuild ==
    /\ probe.op = "legacy"
    /\ probe.pc = "build"
    /\ probe' = LegacyAfterStatement("build", TRUE,
                    IF probe.profile THEN "profile_one_epoch"
                    ELSE "train_one_epoch")
    /\ UNCHANGED run

LegacyProfileOneEpoch ==
    /\ probe.op = "legacy"
    /\ probe.pc = "profile_one_epoch"
    /\ probe' = LegacyAfterStatement("profile_one_epoch", TRUE,
                    "end_train_all")
    /\ UNCHANGED run

LegacyTrainOneEpoch ==
    /\ probe.op = "legacy"
    /\ probe.pc = "train_one_epoch"
    /\ probe' = LegacyAfterStatement("train_one_epoch", TRUE,
                    LegacyAfter("train_one_epoch"))
    /\ UNCHANGED run

\* end_record; time_for_epoch = self.timer.get(..., as_pop=False); the first
\* epoch's time is reported to the server when online
LegacyEndRecord ==
    /\ probe.op = "legacy"
    /\ probe.pc = "end_record"
    /\ probe' = [probe EXCEPT
                   !.pc = LegacyAfter("end_record"),
                   !.time_for_epoch = "bound",
                   !.reports = IF probe.num_epoch = START_EPOCH_ZERO_OR_ONE
                                    /\ probe.is_online
                                 THEN @ + 1 ELSE @,
                   !.trace = Append(@, LegacyEvent("end_record",
                                                   probe.num_epoch))]
    /\ UNCHANGED run

LegacyValidate ==
    /\ probe.op = "legacy"
    /\ probe.pc = "validate"
    /\ probe' = LegacyAfterStatement("validate", legacy_epoch_with_valid_logging(probe.num_epoch),
                    LegacyAfter("validate"))
    /\ UNCHANGED run

LegacyLogEndEpoch ==
    /\ probe.op = "legacy"
    /\ probe.pc = "log_end_epoch"
    /\ probe' = LegacyAfterStatement("log_end_epoch", single_gpu_or_rank_zero,
                    LegacyAfter("log_end_epoch"))
    /\ UNCHANGED run

LegacySchedulerStep ==
    /\ probe.op = "legacy"
    /\ probe.pc = "scheduler_step"
    /\ probe' = LegacyAfterStatement("scheduler_step", TRUE,
                    LegacyAfter("scheduler_step"))
    /\ UNCHANGED run

\* self.timer.end_record(name='train_all'), and train() returns
LegacyEndTrainAll ==
    /\ probe.op = "legacy"
    /\ probe.pc = "end_train_all"
    /\ probe' = LegacyAfterStatement("end_train_all", TRUE,
                    "return")
    /\ UNCHANGED run

LegacyNext ==
    \/ LegacyTrainBegin
    \/ LegacyForHead
    \/ LegacyStartRecord
    \/ LegacyBuild
    \/ LegacyProfileOneEpoch
    \/ LegacyTrainOneEpoch
    \/ LegacyEndRecord
    \/ LegacyValidate
    \/ LegacyLogEndEpoch
    \/ LegacySchedulerStep
    \/ LegacyEndTrainAll

LegacySpec == LegacyInit /\ [][LegacyNext]_vars

\* The order of the events of one epoch that the orchestrator is to keep.
ClaimedEpochOrder ==
    << "start_record", "build", "train_one_epoch", "validate", "end_record",
       "log_end_epoch", "scheduler_step" >>

InClaimedOrder(tr) ==
    \A i, j \in 1..Len(tr) :
        (/\ i < j
         /\ tr[i].epoch = tr[j].epoch
         /\ \E k \in 1..Len(ClaimedEpochOrder) : ClaimedEpochOrder[k] = tr[i].op
         /\ \E k \in 1..Len(ClaimedEpochOrder) : ClaimedEpochOrder[k] = tr[j].op)
        => IndexIn(ClaimedEpochOrder, tr[i].op)
             < IndexIn(ClaimedEpochOrder, tr[j].op)

\* C13: within every epoch the events of the orchestrator, packaged or
\* not, occur in the order: start of the epoch timer, rebuild of the
\* aggregators, training pass, validation sweep (when due), stop and read
\* of the epoch timer, end-of-epoch log, scheduler step; the validation
\* sweep of an epoch therefore lies inside the interval its timer measures.
C13_EpochEventOrder ==
    /\ InClaimedOrder(trace)
    /\ (probe.op = "legacy" => InClaimedOrder(probe.trace))

\* A pipeline object that is constructed and never run, while one of its
\* functions is studied alone.
NoRun ==
    /\ Constructed
    /\ START_EPOCH_ZERO_OR_ONE = 0
    /\ conf = [epochs |-> 1, distributed |-> FALSE]
    /\ model

\* ============================ epoch_with_valid_logging, studied alone
\* The predicate at the consecutive epochs of a fresh run, which begins at
\* epoch int(start_epoch_at_one), for every VALID_FREQ up to MaxFreq.
FreqInit ==
    /\ NoRun
    /\ \E f \in 1..MaxFreq, s \in {0, 1} :
         probe = [op |-> "freq", freq |-> f, start_epoch_at_one |-> s,
                  hits |-> << >>]

\* with_valid_logging = self.epoch_with_valid_logging(num_epoch), for the
\* next epoch of the range
FreqEpoch ==
    /\ probe.op = "freq"
    /\ Len(probe.hits) < MaxFreqEpochs
    /\ LET e == probe.start_epoch_at_one + Len(probe.hits)
       IN  probe' = [probe EXCEPT !.hits =
                        Append(@, ValidLoggingAt(e, probe.freq,
                                                 probe.start_epoch_at_one))]
    /\ UNCHANGED run

FreqSpec == FreqInit /\ [][FreqEpoch]_vars

\* C14: for every VALID_FREQ >= 1 and start_epoch_at_one in {0, 1}, in a
\* fresh run epoch_with_valid_logging holds for the first epoch and then
\* for exactly every VALID_FREQ-th epoch after it (hits[i] is the predicate
\* at the i-th epoch of the run); with VALID_FREQ = 1 it holds in every
\* epoch.
C14_EveryFreqthEpochFromFirst ==
    probe.op = "freq" =>
        /\ \A i \in 1..Len(probe.hits) :
             probe.hits[i] <=> ((i - 1) % probe.freq = 0)
        /\ (probe.freq = 1 => \A i \in 1..Len(probe.hits) : probe.hits[i])

C14_Witness ==
    /\ probe.op = "freq"
    /\ probe.freq = 3
    /\ probe.start_epoch_at_one = 1
    /\ Len(probe.hits) >= 7
    /\ probe.hits[1] /\ ~probe.hits[2] /\ ~probe.hits[3] /\ probe.hits[4]
    /\ probe.hits[7]

\* ===================================================== validate()
\* What valid_step returns for a batch: None, or an output whose 'pred'
\* holds so many items.
PredCounts == {0, 5, 8, NUM_SAMPLES}
BatchOutputs ==
    [none : {FALSE}, pred : PredCounts] \cup {[none |-> TRUE, pred |-> 0]}

\* The pipelines whose get_metric_with_all_outputs validate() may reach:
\* the two task pipelines, and a subclass written to the signature that
\* BasePipeline declares.
Tasks == {"declared", "segmentation", "detection"}

\* The parameters, after self, of get_metric_with_all_outputs; none has a
\* default value.
HookParameters(task) ==
    IF task = "declared" THEN << "outputs" >> ELSE << "outputs", "phase" >>

\* self.get_metric_with_all_outputs(outputs): the arguments of the call
HookArguments == << "outputs" >>

\* A call binds when every parameter receives an argument; a TypeError
\* otherwise.
Binds(params, args) == Len(params) = Len(args)

\* if num_returning_samples < num_samples
UnderCapOrAt(n) == n <= NUM_SAMPLES
UnderCap(n) == n < NUM_SAMPLES

ValidateInit ==
    /\ NoRun
    /\ \E t \in Tasks, n \in 0..MaxBatches :
         probe = [op |-> "validate", task |-> t, batches |-> n,
                  pc |-> "loop", returned |-> << >>, valid_steps |-> 0,
                  outputs |-> << >>, returning_samples |-> << >>,
                  num_returning_samples |-> 0, hook_calls |-> << >>,
                  raised |-> "none"]

\* One iteration of the loop over self.eval_dataloader.
ValidateBatch ==
    /\ probe.op = "validate"
    /\ probe.pc = "loop"
    /\ probe.valid_steps < probe.batches
    /\ \E out \in BatchOutputs :
         LET idx == probe.valid_steps + 1
             item == [idx |-> idx, pred |-> out.pred]
             sampled == ~out.none /\ UnderCap(probe.num_returning_samples)
         IN  probe' = [probe EXCEPT
                 !.valid_steps = idx,
                 !.returned = Append(@, out),
                 !.outputs = IF out.none THEN @ ELSE Append(@, item),
                 !.returning_samples =
                     IF sampled THEN Append(@, item) ELSE @,
                 !.num_returning_samples =
                     IF sampled THEN @ + out.pred ELSE @]
    /\ UNCHANGED run

\* self.get_metric_with_all_outputs(outputs); return returning_samples
ValidateHook ==
    /\ probe.op = "validate"
    /\ probe.pc = "loop"
    /\ probe.valid_steps = probe.batches
    /\ IF Binds(HookParameters(probe.task), HookArguments)
         THEN probe' = [probe EXCEPT
                 !.hook_calls = Append(@, [outputs |-> probe.outputs,
                                           phase |-> "none"]),
                 !.pc = "return"]
         ELSE probe' = [probe EXCEPT !.raised = "TypeError", !.pc = "raise"]
    /\ UNCHANGED run

ValidateNext == ValidateBatch \/ ValidateHook

ValidateSpec == ValidateInit /\ [][ValidateNext]_vars

\* The numbers of predicted items of a sequence of outputs, in order.
Preds(outs) == [i \in 1..Len(outs) |-> outs[i].pred]

\* C15: validate() appends the batch outputs to the sample buffer in
\* dataloader order until the cumulative number of predicted items first
\* reaches at least NUM_SAMPLES, the batch that crosses the threshold
\* included, and appends no batch after that: the buffer is the shortest
\* prefix of the outputs whose predicted items sum to NUM_SAMPLES or more,
\* and all of them when there is none.  For the counts [5, 5, 5, 5] it
\* holds all four batches (20 items), for [8, 8, 8] the first two.
C15_SamplesUpToCap ==
    probe.op = "validate" =>
        LET r == probe.returning_samples
            o == probe.outputs
        IN  /\ IsPrefix(r, o)
            /\ probe.num_returning_samples = SumSeq(Preds(r))
            /\ (Len(r) < Len(o) => SumSeq(Preds(r)) >= NUM_SAMPLES)
            /\ (Len(r) > 0 =>
                  SumSeq(Preds(SubSeq(r, 1, Len(r) - 1))) < NUM_SAMPLES)
            /\ (Preds(o) = << 5, 5, 5, 5 >> =>
                  Len(r) = 4 /\ probe.num_returning_samples = 20)
            /\ (Preds(o) = << 8, 8, 8 >> => Preds(r) = << 8, 8 >>)

C15_Witness ==
    /\ probe.op = "validate"
    /\ probe.pc = "return"
    /\ Preds(probe.outputs) = << 8, 8, 8 >>
    /\ Len(probe.returning_samples) = 2

\* C16: in every validation sweep of a task pipeline valid_step is invoked
\* once for every batch of the eval dataloader, also after the sample cap
\* was reached, and get_metric_with_all_outputs is then invoked exactly
\* once, with phase 'valid', on the outputs of all batches, and the hook
\* of the task pipeline accepts the call.
C16_HookOnceWithValidPhase ==
    (/\ probe.op = "validate"
     /\ probe.pc \in {"return", "raise"}
     /\ probe.task \in {"segmentation", "detection"}) =>
        /\ probe.valid_steps = probe.batches
        /\ probe.raised = "none"
        /\ Len(probe.hook_calls) = 1
        /\ probe.hook_calls[1].phase = "valid"
        /\ probe.hook_calls[1].outputs = probe.outputs

\* ======================= one epoch of a task pipeline (segmentation.py,
\* detection.py) driven by BasePipeline.train
\* Objects are numbered from 1 in the order they are built; None is 0.
None == 0
\* What reading an attribute that was never assigned gives.
Absent == 0 - 1

\* self.<name>: the object the attribute holds, Absent (an AttributeError)
\* when no statement assigned it.
GetAttr(attrs, name) ==
    IF name \in DOMAIN attrs THEN attrs[name] ELSE Absent

\* The attributes BasePipeline.train rebuilds at the start of an epoch
\* and log_end_epoch reads.
RebuiltLossAttr == "loss"
RebuiltMetricAttr == "metric"
\* The attributes train_step and valid_step of the task pipelines
\* accumulate into.
StepLossAttr == "loss_factory"
StepMetricAttr == "metric_factory"

TaskInit ==
    /\ NoRun
    /\ \E t \in Tasks \ {"declared"},
          nt \in 0..MaxBatches, ne \in 0..MaxBatches :
         probe = [op |-> "task", task |-> t, train_batches |-> nt,
                  eval_batches |-> ne, pc |-> "build",
                  attrs |-> [a \in {"loss", "metric", "optimizer"} |-> None],
                  objects |-> << >>, built |-> << >>, steps |-> << >>,
                  logged |-> << >>, raised |-> "none"]

\* self.loss = build_losses(...); self.metric = build_metrics(...): two new
\* objects, whose accumulated state is empty.
TaskBuild ==
    /\ probe.op = "task"
    /\ probe.pc = "build"
    /\ LET l == Len(probe.objects) + 1
           m == Len(probe.objects) + 2
       IN  probe' = [probe EXCEPT
               !.objects = @ \o << 0, 0 >>,
               !.attrs = [a \in DOMAIN @ \cup
                                 {RebuiltLossAttr, RebuiltMetricAttr} |->
                            IF a = RebuiltLossAttr THEN l
                            ELSE IF a = RebuiltMetricAttr THEN m
                            ELSE @[a]],
               !.built = << l, m >>,
               !.pc = "train"]
    /\ UNCHANGED run

\* The locals after a train_step or valid_step: the step accumulates into
\* the objects its attributes hold, and raises AttributeError when one of
\* the attributes was never assigned.  The steps of the detection pipeline
\* leave the metric to get_metric_with_all_outputs.
AfterStep(kind) ==
    LET l == GetAttr(probe.attrs, StepLossAttr)
        m == IF probe.task = "segmentation"
               THEN GetAttr(probe.attrs, StepMetricAttr)
               ELSE None
        step == [kind |-> kind, loss |-> l, metric |-> m]
    IN  IF l = Absent \/ m = Absent
          THEN [probe EXCEPT !.steps = Append(@, step),
                             !.raised = "AttributeError",
                             !.pc = "raise"]
          ELSE [probe EXCEPT !.steps = Append(@, step),
                             !.objects = [i \in 1..Len(@) |->
                                 IF i \in {l, m} THEN @[i] + 1 ELSE @[i]]]

StepsOf(kind) == Len(SelectSeq(probe.steps, LAMBDA st : st.kind = kind))

\* train_one_epoch: self.train_step(batch) for the next batch
TaskTrainStep ==
    /\ probe.op = "task"
    /\ probe.pc = "train"
    /\ StepsOf("train") < probe.train_batches
    /\ probe' = AfterStep("train")
    /\ UNCHANGED run

\* the training dataloader is exhausted
TaskTrainDone ==
    /\ probe.op = "task"
    /\ probe.pc = "train"
    /\ StepsOf("train") = probe.train_batches
    /\ probe' = [probe EXCEPT !.pc = "valid"]
    /\ UNCHANGED run

\* validate: self.valid_step(batch) for the next batch
TaskValidStep ==
    /\ probe.op = "task"
    /\ probe.pc = "valid"
    /\ StepsOf("valid") < probe.eval_batches
    /\ probe' = AfterStep("valid")
    /\ UNCHANGED run

\* validate: self.get_metric_with_all_outputs(outputs), then log_end_epoch
\* reads self.loss.result(...) and self.metric.result(...)
TaskValidHook ==
    /\ probe.op = "task"
    /\ probe.pc = "valid"
    /\ StepsOf("valid") = probe.eval_batches
    /\ IF Binds(HookParameters(probe.task), HookArguments)
         THEN probe' = [probe EXCEPT
                 !.logged = << GetAttr(probe.attrs, RebuiltLossAttr),
                               GetAttr(probe.attrs, RebuiltMetricAttr) >>,
                 !.pc = "logged"]
         ELSE probe' = [probe EXCEPT !.raised = "TypeError", !.pc = "raise"]
    /\ UNCHANGED run

TaskNext ==
    \/ TaskBuild
    \/ TaskTrainStep
    \/ TaskTrainDone
    \/ TaskValidStep
    \/ TaskValidHook

TaskSpec == TaskInit /\ [][TaskNext]_vars

\* C17: the loss and metric aggregators that train_step and valid_step
\* accumulate into during an epoch, and that the end-of-epoch log reads,
\* are the objects rebuilt at the start of that epoch, whose accumulated
\* state was the initial one when the epoch began.
C17_StepsUseRebuiltAggregators ==
    probe.op = "task" =>
        /\ \A i \in 1..Len(probe.steps) :
             /\ probe.built # << >>
             /\ probe.steps[i].loss = probe.built[1]
             /\ probe.steps[i].metric \in {None, probe.built[2]}
        /\ (probe.logged # << >> => probe.logged = probe.built)
        /\ (probe.pc = "train" /\ probe.steps = << >> =>
               \A i \in 1..Len(probe.built) :
                   probe.objects[probe.built[i]] = 0)

\* ===================== TrainingSummary.__post_init__, studied alone
\* Losses in tenths: 3, 4 and 5 stand for 0.3, 0.4 and 0.5.
SummaryLosses == {3, 4, 5}

\* The dicts from epochs to losses with at most MaxKeys epochs, each as
\* the sequence of its items in insertion order: the keys are distinct.
LossMappings ==
    UNION { { m \in [1..n -> [epoch : 1..MaxKeys, loss : SummaryLosses]] :
                \A i, j \in 1..n : i # j => m[i].epoch # m[j].epoch } :
            n \in 0..MaxKeys }

SummaryInit ==
    /\ NoRun
    /\ \E v \in LossMappings, t \in {"same epochs", "no epoch"} :
         probe = [op |-> "summary", valid_losses |-> v,
                  train_losses |-> IF t = "same epochs" THEN Keys(v)
                                   ELSE << >>,
                  constructed |-> FALSE, written |-> FALSE,
                  error |-> "none", best_epoch |-> 0, last_epoch |-> 0]

\* TrainingSummary(...): the dataclass calls __post_init__
SummaryConstruct ==
    /\ probe.op = "summary"
    /\ ~probe.constructed
    /\ probe.error = "none"
    /\ LET r == PostInit(probe.train_losses, probe.valid_losses)
       IN  probe' = [probe EXCEPT !.constructed = (r.error = "none"),
                                  !.error = r.error,
                                  !.best_epoch = r.best_epoch,
                                  !.last_epoch = r.last_epoch]
    /\ UNCHANGED run

\* torch.save({'summary': asdict(training_summary), ...}, summary_path)
SummaryWrite ==
    /\ probe.op = "summary"
    /\ probe.constructed
    /\ ~probe.written
    /\ probe' = [probe EXCEPT !.written = TRUE]
    /\ UNCHANGED run

SummaryNext == SummaryConstruct \/ SummaryWrite

SummarySpec == SummaryInit /\ [][SummaryNext]_vars

\* C18: for every non-empty valid_losses, best_epoch is a key of
\* valid_losses whose loss is minimal over all keys, and of the keys that
\* share the minimal loss it is the one recorded first; for
\* {1: 0.5, 2: 0.3, 3: 0.4} it is 2.
C18_BestEpochIsFirstMinimal ==
    (probe.op = "summary" /\ probe.constructed) =>
        LET v == probe.valid_losses
        IN  /\ v # << >>
            /\ \E i \in 1..Len(v) :
                 /\ v[i].epoch = probe.best_epoch
                 /\ \A j \in 1..Len(v) : v[i].loss <= v[j].loss
                 /\ \A j \in 1..(i - 1) : v[j].loss > v[i].loss
            /\ (v = << [epoch |-> 1, loss |-> 5], [epoch |-> 2, loss |-> 3],
                        [epoch |-> 3, loss |-> 4] >> => probe.best_epoch = 2)

C18_Witness ==
    /\ probe.op = "summary"
    /\ probe.constructed
    /\ probe.valid_losses = << [epoch |-> 3, loss |-> 4],
                               [epoch |-> 1, loss |-> 3],
                               [epoch |-> 2, loss |-> 3] >>
    /\ probe.best_epoch = 1

\* C19: the last_epoch of every summary that _save_summary builds from the
\* training history of a run is the maximum key of its train_losses.
C19_LastEpochIsMaxKey ==
    \A i \in 1..Len(summaries) :
        LET keys == summaries[i].train_losses
        IN  /\ \E j \in 1..Len(keys) : keys[j] = summaries[i].last_epoch
            /\ \A j \in 1..Len(keys) : keys[j] <= summaries[i].last_epoch

C19_Witness ==
    /\ phase = "COMPLETED"
    /\ Len(summaries) = 1
    /\ summaries[1].train_losses = << 1, 2, 3 >>
    /\ summaries[1].last_epoch = 3

\* C20: constructing a TrainingSummary with an empty valid_losses fails
\* with an error and no summary is written in that case: every summary
\* written has a non-empty valid_losses, and _save_summary on an empty
\* history (the interrupt handler before the first end-of-epoch record)
\* ends with the ValueError and without a summary.
C20_EmptyValidLossesFails ==
    /\ \A i \in 1..Len(summaries) : summaries[i].valid_losses # << >>
    /\ (/\ phase = "INTERRUPTED"
        /\ single_gpu_or_rank_zero
        /\ training_history = << >>
        /\ metric.set) =>
           (raised = "ValueError" /\ summaries = << >>)

C20_Witness ==
    /\ phase = "INTERRUPTED"
    /\ training_history = << >>
    /\ raised = "ValueError"
    /\ checkpoints = 1
    /\ summaries = << >>

\* ============== the history and _save_summary at a validation cadence
\* log_end_epoch for the consecutive epochs of a fresh run whose cadence is
\* any VALID_FREQ up to MaxFreq, and _save_summary on the history so far.
CadenceInit ==
    /\ NoRun
    /\ \E f \in 1..MaxFreq, s \in {0, 1} :
         probe = [op |-> "cadence", freq |-> f, start_epoch_at_one |-> s,
                  training_history |-> << >>, saved |-> FALSE,
                  error |-> "none", train_losses |-> << >>,
                  valid_losses |-> << >>]

\* log_end_epoch(epoch, ..., valid_logging=epoch_with_valid_logging(epoch))
CadenceLogEndEpoch ==
    /\ probe.op = "cadence"
    /\ ~probe.saved
    /\ Len(probe.training_history) < MaxKeys
    /\ LET e == probe.start_epoch_at_one + Len(probe.training_history)
           v == ValidLoggingAt(e, probe.freq, probe.start_epoch_at_one)
       IN  \E l \in EpochLosses :
             probe' = [probe EXCEPT !.training_history =
                          HistoryUpdate(@, SummaryRecord(e, v, l))]
    /\ UNCHANGED run

\* _save_summary(): the summary it builds, or the exception it ends with
CadenceSaveSummary ==
    /\ probe.op = "cadence"
    /\ ~probe.saved
    /\ LET h == probe.training_history
           err == SummaryErrorOf(h, TRUE)
       IN  probe' = [probe EXCEPT
               !.saved = TRUE,
               !.error = err,
               !.train_losses = IF err = "none" THEN Keys(h) ELSE << >>,
               !.valid_losses = IF err = "none" THEN ValidLosses(h)
                                ELSE << >>]
    /\ UNCHANGED run

CadenceNext == CadenceLogEndEpoch \/ CadenceSaveSummary

CadenceSpec == CadenceInit /\ [][CadenceNext]_vars

\* The epochs of the history, and those of them that were validated.
HistoryEpochs(h) == { h[i].epoch : i \in 1..Len(h) }
ValidatedEpochs(h) == { h[i].epoch : i \in { j \in 1..Len(h) : h[j].valid } }

\* C21: when the history holds at least one entry without validation and
\* at least one with validation, _save_summary builds the summary: its
\* train_losses has a key for every epoch of the history and its
\* valid_losses has keys for the validated epochs only.
C21_MixedHistorySummary ==
    (/\ probe.op = "cadence"
     /\ probe.saved
     /\ ValidatedEpochs(probe.training_history) # {}
     /\ ValidatedEpochs(probe.training_history)
          # HistoryEpochs(probe.training_history)) =>
        /\ probe.error = "none"
        /\ { probe.train_losses[i] : i \in 1..Len(probe.train_losses) }
             = HistoryEpochs(probe.training_history)
        /\ { probe.valid_losses[i].epoch : i \in 1..Len(probe.valid_losses) }
             = ValidatedEpochs(probe.training_history)

\* C22: the training history only grows during a run: a step leaves it
\* as it is or appends one entry, under the index of the epoch being
\* completed and larger than every key already there, so that no entry
\* is removed, reordered or overwritten; each epoch completed on the
\* primary rank has exactly one entry.
C22_HistoryOnlyGrows ==
    [][ /\ IsPrefix(training_history, training_history')
        /\ Len(training_history') <= Len(training_history) + 1
        /\ (Len(training_history') = Len(training_history) + 1 =>
              /\ Last(training_history').epoch = num_epoch
              /\ \A i \in 1..Len(training_history) :
                   training_history[i].epoch < num_epoch)
        /\ Len(training_history')
             = Cardinality(Positions("log_end_epoch")') ]_vars

C22_Witness ==
    /\ phase = "RUNNING"
    /\ pc = "scheduler_step"
    /\ Len(training_history) = 3
    /\ Keys(training_history) = << 1, 2, 3 >>

\* ================== train_step, valid_step and test_step of the task
\* pipelines (segmentation.py, detection.py), one call on one batch
\* The samples of a batch are its positions 1..n; dummy[i] says that
\* indices[i] is -1.  A call runs the statements of its program in order.
StepKinds == {"train", "valid", "test"}

\* zero_grad, forward, loss calc, backward, optimizer.step of train_step
TrainOpsStepBeforeBackward ==
    << "zero_grad", "forward", "loss_calc", "optimizer_step", "backward" >>
TrainOps ==
    << "zero_grad", "forward", "loss_calc", "backward", "optimizer_step" >>

\* The statements of a step, in program order.
StepProgram(task, kind, distributed) ==
    IF task = "segmentation" THEN
        (IF kind = "train" THEN TrainOps \o << "postprocess" >>
         ELSE IF kind = "valid" THEN << "forward", "loss_calc", "postprocess" >>
         ELSE << "forward", "postprocess" >>)
        \o (IF kind = "test" THEN << >>
            ELSE IF distributed
              THEN << "filter", "gather_pred", "gather_labels", "barrier",
                      "metric_calc" >>
            ELSE << "metric_calc" >>)
        \o << "return" >>
    ELSE
        (IF kind = "train" THEN TrainOps \o << "postprocess" >>
         ELSE IF kind = "valid"
           THEN << "zero_grad", "forward", "loss_calc", "postprocess" >>
         ELSE << "forward", "postprocess" >>)
        \o (IF ~distributed THEN << >>
            ELSE IF kind = "train" THEN << "barrier" >>
            ELSE << "filter", "barrier" >>)
        \o << "return" >>

\* The locals that the removal of the dummy samples rewrites.
Filtered(task, kind) ==
    IF task = "segmentation" THEN {"pred", "labels"}
    ELSE IF kind = "valid" THEN {"images", "labels", "pred"}
    ELSE {"pred"}

\* The locals that the returned record holds.
Returned(task, kind) ==
    IF kind = "test" THEN {"pred"}
    ELSE IF kind = "valid" THEN {"images", "labels", "pred"}
    ELSE IF task = "detection" THEN {"labels", "pred"}
    ELSE {}

\* The samples that a list of per-sample values holds.
Samples(samples) == {samples[i] : i \in 1..Len(samples)}

\* x[indices != -1]: the samples that are not dummies, in their order
KeepReal(samples, dummy) == SelectSeq(samples, LAMBDA i : ~dummy[i])

StepInit ==
    /\ NoRun
    /\ \E t \in Tasks \ {"declared"}, k \in StepKinds, w \in BOOLEAN,
          d \in BOOLEAN, r \in 0..MaxRank, n \in 1..MaxSamples :
         \E dm \in [1..n -> BOOLEAN] :
            /\ (~d => r = 0 /\ \A i \in 1..n : ~dm[i])
            /\ probe = [op |-> "step", task |-> t, kind |-> k, wired |-> w,
                        distributed |-> d, rank |-> r, dummy |-> dm,
                        pc |-> 1, status |-> "running", ops |-> << >>,
                        images |-> [i \in 1..n |-> i],
                        labels |-> [i \in 1..n |-> i],
                        pred |-> << >>,
                        grads |-> "stale", params |-> 0,
                        loss |-> {}, metric |-> {}, gathered |-> << >>,
                        result |-> << >>, raised |-> "none"]

\* The statement the call is at.
Statement ==
    LET prog == StepProgram(probe.task, probe.kind, probe.distributed)
    IN  IF probe.op = "step" /\ probe.status = "running"
          THEN prog[probe.pc] ELSE "none"

\* The locals after the statement named op, which changed nothing else.
Stepped(op) == [probe EXCEPT !.pc = @ + 1, !.ops = Append(@, op)]

\* What a calc(..., phase=...) of the step adds to an accumulator: the
\* samples it was given, under the phase of the step.
Accumulated(samples) == {<< probe.kind, i >> : i \in Samples(samples)}

\* Reading an attribute that no statement assigned ends the step.
StepAttributeError ==
    [probe EXCEPT !.status = "raised", !.raised = "AttributeError"]

\* self.optimizer.zero_grad()
StepZeroGrad ==
    /\ Statement = "zero_grad"
    /\ probe' = [Stepped("zero_grad") EXCEPT !.grads = "zero"]
    /\ UNCHANGED run

\* out = self.model(images)
StepForward ==
    /\ Statement = "forward"
    /\ probe' = Stepped("forward")
    /\ UNCHANGED run

\* self.loss_factory.calc(out, target, phase=...): the whole batch, as the
\* data loader gave it, goes to the loss accumulator
StepLossCalc ==
    /\ Statement = "loss_calc"
    /\ probe' = IF probe.wired
                  THEN [Stepped("loss_calc") EXCEPT
                          !.loss = @ \cup Accumulated(probe.labels)]
                  ELSE StepAttributeError
    /\ UNCHANGED run

\* self.loss_factory.backward()
StepBackward ==
    /\ Statement = "backward"
    /\ probe' = [Stepped("backward") EXCEPT !.grads = "computed"]
    /\ UNCHANGED run

\* self.optimizer.step()
StepOptimizerStep ==
    /\ Statement = "optimizer_step"
    /\ probe' = [Stepped("optimizer_step") EXCEPT !.params = @ + 1]
    /\ UNCHANGED run

\* pred = self.postprocessor(out, ...): one prediction per sample
StepPostprocess ==
    /\ Statement = "postprocess"
    /\ probe' = IF probe.wired
                  THEN [Stepped("postprocess") EXCEPT !.pred = probe.images]
                  ELSE StepAttributeError
    /\ UNCHANGED run

\* x = x[indices != -1] for the locals the step filters
StepFilter ==
    /\ Statement = "filter"
    /\ LET f == Filtered(probe.task, probe.kind)
           keep(name) == IF name \in f THEN KeepReal(probe[name], probe.dummy)
                         ELSE probe[name]
       IN  probe' = [Stepped("filter") EXCEPT !.images = keep("images"),
                                              !.labels = keep("labels"),
                                              !.pred = keep("pred")]
    /\ UNCHANGED run

\* torch.distributed.gather_object(pred, ..., dst=0)
StepGatherPred ==
    /\ Statement = "gather_pred"
    /\ probe' = [Stepped("gather") EXCEPT !.gathered = Append(@, probe.pred)]
    /\ UNCHANGED run

\* torch.distributed.gather_object(labels, ..., dst=0)
StepGatherLabels ==
    /\ Statement = "gather_labels"
    /\ probe' = [Stepped("gather") EXCEPT !.gathered = Append(@, probe.labels)]
    /\ UNCHANGED run

\* torch.distributed.barrier()
StepBarrier ==
    /\ Statement = "barrier"
    /\ probe' = Stepped("barrier")
    /\ UNCHANGED run

\* self.metric_factory.calc(pred, labels, phase=...): in distributed mode on
\* rank 0 only, over what was gathered
StepMetricCalc ==
    /\ Statement = "metric_calc"
    /\ probe' = IF probe.distributed /\ probe.rank # 0
                  THEN [probe EXCEPT !.pc = @ + 1]
                  ELSE [Stepped("metric_calc") EXCEPT
                          !.metric = @ \cup Accumulated(probe.pred)]
    /\ UNCHANGED run

\* return logs.items() / return pred / the end of the body
StepReturn ==
    /\ Statement = "return"
    /\ probe' = [probe EXCEPT
                   !.status = "returned",
                   !.result = [f \in Returned(probe.task, probe.kind)
                                 |-> probe[f]]]
    /\ UNCHANGED run

\* A KeyboardInterrupt raised while the step runs leaves it at the statement
\* it was at and enters the handler of train().
StepInterrupt ==
    /\ Statement # "none"
    /\ probe' = [probe EXCEPT !.status = "interrupted",
                              !.raised = "KeyboardInterrupt"]
    /\ UNCHANGED run

StepNext ==
    \/ StepZeroGrad \/ StepForward \/ StepLossCalc \/ StepBackward
    \/ StepOptimizerStep \/ StepPostprocess \/ StepFilter
    \/ StepGatherPred \/ StepGatherLabels \/ StepBarrier
    \/ StepMetricCalc \/ StepReturn \/ StepInterrupt

StepSpec == StepInit /\ [][StepNext]_vars

\* The statements of `ops` that are among `names`, in the order they ran.
Only(ops, names) == SelectSeq(ops, LAMBDA o : o \in names)

ClaimedTrainOrder ==
    << "zero_grad", "forward", "loss_calc", "backward", "optimizer_step" >>

\* C23: a train_step runs zero_grad, forward, the loss calc with phase
\* 'train', backward and optimizer.step in this order, each once per batch
\* when it returns; valid_step and test_step never run backward or
\* optimizer.step and leave the parameters and gradients as they were.
C23_TrainStepOrder ==
    probe.op = "step" =>
      /\ probe.kind = "train" =>
            /\ IsPrefix(Only(probe.ops, Samples(ClaimedTrainOrder)),
                        ClaimedTrainOrder)
            /\ \A a \in probe.loss : a[1] = "train"
            /\ (probe.status = "returned" =>
                  /\ Only(probe.ops, Samples(ClaimedTrainOrder))
                       = ClaimedTrainOrder
                  /\ probe.params = 1
                  /\ probe.loss # {})
      /\ probe.kind # "train" =>
            /\ Only(probe.ops, {"backward", "optimizer_step"}) = << >>
            /\ probe.params = 0
            /\ probe.grads # "computed"

C23_Witness ==
    /\ probe.op = "step" /\ probe.status = "returned"
    /\ probe.kind = "train" /\ probe.task = "detection"
    /\ probe.distributed /\ probe.params = 1

\* The per-sample values of a batch of n samples without its dummies.
RealSamples == KeepReal([i \in 1..Len(probe.dummy) |-> i], probe.dummy)

\* C24: in distributed mode the record a valid_step returns holds, for
\* every per-sample output (prediction, label or box, image), the samples
\* whose index is not -1, in their order, and no dummy sample is given to
\* the metric calculation.
C24_ValidStepDropsDummies ==
    (probe.op = "step" /\ probe.kind = "valid" /\ probe.distributed) =>
      /\ \A a \in probe.metric : ~probe.dummy[a[2]]
      /\ \A i \in 1..Len(probe.gathered) : probe.gathered[i] = RealSamples
      /\ (probe.status = "returned" =>
            \A f \in DOMAIN probe.result : probe.result[f] = RealSamples)

\* C25: in distributed mode a sample whose index is -1 is in neither the
\* loss accumulator nor the metric accumulator, in train_step and valid_step
\* of both pipelines.
C25_DummyNotAccumulated ==
    (probe.op = "step" /\ probe.kind \in {"train", "valid"}
       /\ probe.distributed) =>
      \A a \in probe.loss \cup probe.metric : ~probe.dummy[a[2]]

\* C29: the handler of a user interrupt never starts between the first and
\* the last statement of a train_step.
C29_InterruptAtBatchBoundary ==
    (probe.op = "step" /\ probe.kind = "train"
       /\ probe.status = "interrupted") =>
      probe.pc = 1

\* ================== one epoch of a distributed run: every rank runs
\* train_one_epoch and validate on its own batches
\* Every rank runs the same statements; a collective call (gather_object,
\* barrier) completes when every rank has made the same call.
Ranks == 0..MaxRank

Collectives == {"gather_pred", "gather_labels", "gather_outputs", "barrier"}

\* The body of get_metric_with_all_outputs without its last statement
HookProgramNoBarrier(task) ==
    IF task = "detection"
      THEN << "strip_images", "gather_outputs", "hook_metric_calc" >>
      ELSE << "pass" >>
\* The body of get_metric_with_all_outputs in distributed mode
HookProgram(task) ==
    IF task = "detection"
      THEN << "strip_images", "gather_outputs", "barrier", "hook_metric_calc" >>
      ELSE << "pass" >>

Tagged(kind, prog) == [i \in 1..Len(prog) |-> [kind |-> kind, stmt |-> prog[i]]]

RECURSIVE Repeated(_, _)
Repeated(n, prog) == IF n = 0 THEN << >> ELSE prog \o Repeated(n - 1, prog)

\* The statements of a rank in one epoch: a train_step per train batch, a
\* valid_step per eval batch, then the hook.
EpochProgram(task, ntrain, nvalid) ==
    Repeated(ntrain, Tagged("train", StepProgram(task, "train", TRUE)))
    \o Repeated(nvalid, Tagged("valid", StepProgram(task, "valid", TRUE)))
    \o Tagged("hook", HookProgram(task))

\* sum(gathered_outputs, []): the lists of ranks 0..n, one after another
RECURSIVE ConcatUpTo(_, _)
ConcatUpTo(gathered, n) ==
    IF n < 0 THEN << >> ELSE ConcatUpTo(gathered, n - 1) \o gathered[n]

DistInit ==
    /\ NoRun
    /\ \E t \in Tasks \ {"declared"}, nt \in 1..MaxSteps, nv \in 1..MaxSteps :
         probe = [op |-> "dist", task |-> t, ntrain |-> nt, nvalid |-> nv,
                  at |-> [r \in Ranks |-> 1],
                  calls |-> [r \in Ranks |-> << >>],
                  outputs |-> [r \in Ranks |-> << >>],
                  gathered |-> [r \in Ranks |-> << >>],
                  step_calcs |-> [r \in Ranks |-> 0],
                  hook_calcs |-> [r \in Ranks |-> << >>]]

DistProgram == EpochProgram(probe.task, probe.ntrain, probe.nvalid)

\* The statement rank r is at.
DistStatement(r) ==
    IF probe.op = "dist" /\ probe.at[r] <= Len(DistProgram)
      THEN DistProgram[probe.at[r]]
      ELSE [kind |-> "none", stmt |-> "done"]

\* A statement of a step that touches neither a collective nor the metric
\* accumulator nor the outputs of the sweep
DistCompute ==
    \E r \in Ranks :
       /\ DistStatement(r).stmt \in
             {"zero_grad", "forward", "loss_calc", "backward",
              "optimizer_step", "postprocess", "filter", "strip_images",
              "pass"}
       /\ probe' = [probe EXCEPT !.at[r] = @ + 1]
       /\ UNCHANGED run

\* if torch.distributed.get_rank() == 0: self.metric_factory.calc(...)
DistStepMetricCalc ==
    \E r \in Ranks :
       /\ DistStatement(r).stmt = "metric_calc"
       /\ probe' = [probe EXCEPT
                      !.at[r] = @ + 1,
                      !.step_calcs[r] = IF r = 0 THEN @ + 1 ELSE @]
       /\ UNCHANGED run

\* The step returns; validate() appends what a valid_step returned.
DistReturn ==
    \E r \in Ranks :
       /\ DistStatement(r).stmt = "return"
       /\ probe' = [probe EXCEPT
                      !.at[r] = @ + 1,
                      !.outputs[r] =
                         IF DistStatement(r).kind = "valid"
                           THEN Append(@, << r, Len(@) + 1 >>) ELSE @]
       /\ UNCHANGED run

\* torch.distributed.gather_object(x, ..., dst=0), called by every rank:
\* rank 0 receives the objects in rank order
DistGather ==
    /\ \E name \in Collectives \ {"barrier"} :
          \A r \in Ranks : DistStatement(r).stmt = name
    /\ probe' = [probe EXCEPT
                   !.at = [r \in Ranks |-> @[r] + 1],
                   !.calls = [r \in Ranks |-> Append(@[r], "gather")],
                   !.gathered =
                      IF DistStatement(0).stmt = "gather_outputs"
                        THEN probe.outputs ELSE @]
    /\ UNCHANGED run

\* torch.distributed.barrier(), called by every rank
DistBarrier ==
    /\ \A r \in Ranks : DistStatement(r).stmt = "barrier"
    /\ probe' = [probe EXCEPT
                   !.at = [r \in Ranks |-> @[r] + 1],
                   !.calls = [r \in Ranks |-> Append(@[r], "barrier")]]
    /\ UNCHANGED run

\* The hook with the metric calculation on every rank
DistHookMetricCalcEveryRank ==
    \E r \in Ranks :
       /\ DistStatement(r).stmt = "hook_metric_calc"
       /\ probe' = [probe EXCEPT
                      !.at[r] = @ + 1,
                      !.hook_calcs[r] =
                         Append(@, ConcatUpTo(probe.gathered, MaxRank))]
       /\ UNCHANGED run

\* if self.single_gpu_or_rank_zero: ... self.metric_factory.calc(pred,
\* target=targets, phase=phase) over sum(gathered_outputs, [])
DistHookMetricCalc ==
    \E r \in Ranks :
       /\ DistStatement(r).stmt = "hook_metric_calc"
       /\ probe' = [probe EXCEPT
                      !.at[r] = @ + 1,
                      !.hook_calcs[r] =
                         IF r = 0
                           THEN Append(@, ConcatUpTo(probe.gathered, MaxRank))
                           ELSE @]
       /\ UNCHANGED run

DistNext ==
    \/ DistCompute \/ DistStepMetricCalc \/ DistReturn
    \/ DistGather \/ DistBarrier \/ DistHookMetricCalc

DistSpec == DistInit /\ [][DistNext]_vars

DistFinished(r) == probe.op = "dist" /\ probe.at[r] > Len(DistProgram)

\* The number of calls named c that rank r has completed.
CallsOf(r, c) == Len(SelectSeq(probe.calls[r], LAMBDA x : x = c))

C28_ErrorPathsLog ==
    raised # "none" => app_log # << >>

\* ================== Timer: a mapping from a name to accumulated seconds
\* train() and _save_summary() use a 'train_all' entry and one entry per
\* epoch.  An entry is created by its first start_record.
TimerNames == {"train_all", "train_epoch_1"}

NoEntry == [present |-> FALSE, total |-> 0, start |-> 0]

\* get(name, as_pop=False)
AsPopDefault == FALSE

\* The mapping after get(name, as_pop), which always clears the entry
AfterGetAlwaysPop(data, name, as_pop) == [data EXCEPT ![name] = NoEntry]
\* The mapping after get(name, as_pop)
AfterGet(data, name, as_pop) ==
    IF as_pop THEN [data EXCEPT ![name] = NoEntry] ELSE data

\* The call that a Timer run made last, and the run after it.
TimerCalled(call, name, as_pop, value) ==
    [probe EXCEPT !.n = @ + 1,
                  !.last = [call |-> call, name |-> name, as_pop |-> as_pop,
                            value |-> value]]

TimerInit ==
    /\ NoRun
    /\ probe = [op |-> "timer", now |-> 0, n |-> 0,
                data |-> [name \in TimerNames |-> NoEntry],
                last |-> [call |-> "none", name |-> "none", as_pop |-> FALSE,
                          value |-> 0]]

\* Wall-clock time passes.
TimerTick ==
    /\ probe.op = "timer"
    /\ probe.now < MaxClock
    /\ probe' = [probe EXCEPT !.now = @ + 1]
    /\ UNCHANGED run

\* self.timer.start_record(name=...)
TimerStartRecord ==
    /\ probe.op = "timer"
    /\ probe.n < MaxCalls
    /\ \E name \in TimerNames :
          probe' = [TimerCalled("start_record", name, FALSE, 0) EXCEPT
                      !.data[name] = [present |-> TRUE, total |-> @.total,
                                      start |-> probe.now]]
    /\ UNCHANGED run

\* self.timer.end_record(name=...)
TimerEndRecord ==
    /\ probe.op = "timer"
    /\ probe.n < MaxCalls
    /\ \E name \in TimerNames :
          /\ probe.data[name].present
          /\ probe' = [TimerCalled("end_record", name, FALSE, 0) EXCEPT
                         !.data[name].total = @ + (probe.now - probe.data[name].start)]
    /\ UNCHANGED run

\* self.timer.get(name=..., as_pop=...); a call without the flag is one
\* with as_pop = AsPopDefault
TimerGet ==
    /\ probe.op = "timer"
    /\ probe.n < MaxCalls
    /\ \E name \in TimerNames, as_pop \in BOOLEAN :
          /\ probe.data[name].present
          /\ probe' = [TimerCalled("get", name, as_pop,
                                   probe.data[name].total) EXCEPT
                         !.data = AfterGet(probe.data, name, as_pop)]
    /\ UNCHANGED run

TimerNext ==
    TimerTick \/ TimerStartRecord \/ TimerEndRecord \/ TimerGet

TimerSpec == TimerInit /\ [][TimerNext]_vars

Dataloader(n) == [i \in 1..n |-> i]

\* The batch the for statement binds, taken from the end of what is left
NextBatchFromEnd(iter) == iter[Len(iter)]
\* for idx, batch in enumerate(tqdm(dataloader, leave=False)): the batch the
\* for statement binds
NextBatch(iter) == Head(iter)

PassInit ==
    /\ NoRun
    /\ \E n \in 0..MaxBatches, m \in 0..MaxBatches, v \in BOOLEAN :
         probe = [op |-> "pass", batches |-> n, eval_batches |-> m,
                  with_valid_logging |-> v, pc |-> "train_one_epoch",
                  iter |-> Dataloader(n), calls |-> << >>,
                  raised |-> "none"]

\* self.train_step(batch) of one iteration; an exception of the step leaves
\* the loop and train_one_epoch.
PassTrainStep ==
    /\ probe.op = "pass"
    /\ probe.pc = "train_one_epoch"
    /\ probe.iter # << >>
    /\ \E returns \in BOOLEAN :
         probe' = [probe EXCEPT
                     !.calls = Append(@, << "train_step", NextBatch(probe.iter) >>),
                     !.iter = Tail(@),
                     !.pc = IF returns THEN @ ELSE "raise",
                     !.raised = IF returns THEN @ ELSE "Exception"]
    /\ UNCHANGED run

\* The training dataloader is exhausted: train_one_epoch returns, and
\* train() calls validate() if with_valid_logging.
PassTrainReturn ==
    /\ probe.op = "pass"
    /\ probe.pc = "train_one_epoch"
    /\ probe.iter = << >>
    /\ probe' = IF probe.with_valid_logging
                  THEN [probe EXCEPT !.pc = "validate",
                                     !.iter = Dataloader(probe.eval_batches)]
                  ELSE [probe EXCEPT !.pc = "end_record"]
    /\ UNCHANGED run

\* out = self.valid_step(batch) of one iteration of validate()
PassValidStep ==
    /\ probe.op = "pass"
    /\ probe.pc = "validate"
    /\ probe.iter # << >>
    /\ probe' = [probe EXCEPT
                   !.calls = Append(@, << "valid_step", NextBatch(probe.iter) >>),
                   !.iter = Tail(@)]
    /\ UNCHANGED run

\* The eval dataloader is exhausted: validate() goes on to the hook.
PassValidReturn ==
    /\ probe.op = "pass"
    /\ probe.pc = "validate"
    /\ probe.iter = << >>
    /\ probe' = [probe EXCEPT !.pc = "end_record"]
    /\ UNCHANGED run

PassNext ==
    PassTrainStep \/ PassTrainReturn \/ PassValidStep \/ PassValidReturn

PassSpec == PassInit /\ [][PassNext]_vars

\* The batches that the calls of the step named `step` were given, in order.
BatchesOf(step) ==
    LET c == SelectSeq(probe.calls, LAMBDA x : x[1] = step)
    IN  [i \in 1..Len(c) |-> c[i][2]]

\* C31: the train_steps of an epoch are given the batches of the training
\* dataloader in its order, each once and none skipped, and no valid_step
\* of the epoch is called before the train_step of the last batch returned.
C31_TrainStepPerBatchInOrder ==
    probe.op = "pass" =>
      /\ IsPrefix(BatchesOf("train_step"), Dataloader(probe.batches))
      /\ probe.pc \in {"validate", "end_record"} =>
            BatchesOf("train_step") = Dataloader(probe.batches)
      /\ \A i \in 1..Len(probe.calls) :
            probe.calls[i][1] = "valid_step" =>
              /\ i > probe.batches
              /\ \A j \in 1..probe.batches :
                    probe.calls[j] = << "train_step", j >>

C31_Witness ==
    /\ probe.op = "pass" /\ probe.pc = "validate"
    /\ probe.batches = 3 /\ Len(probe.calls) = 5
    /\ probe.calls[4] = << "valid_step", 1 >>

\* C32: a train() invocation that has ended and wrote a checkpoint wrote a
\* training summary too, on the completion path and on the interrupt path.
C32_CheckpointWithSummary ==
    (phase \in {"COMPLETED", "INTERRUPTED", "FAILED"} /\ checkpoints > 0) =>
      summaries # << >>

\* The epochs whose iteration called scheduler.step(), in order.
StepEpochs ==
    LET steps == SelectSeq(trace, LAMBDA ev : ev.op = "scheduler_step")
    IN  [i \in 1..Len(steps) |-> steps[i].epoch]

\* C33: on every rank scheduler.step() has been called once for each
\* completed epoch, in the order of the epochs, whatever the rank; between
\* epochs and after the loop the history of the primary rank has one entry
\* per scheduler step, under the epoch of that step.
C33_SchedulerStepPerEpoch ==
    /\ IsPrefix(StepEpochs, Range(start_epoch, LoopStop))
    /\ IsPrefix(StepEpochs, Executed)
    /\ Len(Executed) <= Len(StepEpochs) + 1
    /\ (phase = "RUNNING" /\ (pc = "for" \/ LoopEnded)) =>
          /\ StepEpochs = Executed
          /\ single_gpu_or_rank_zero => Keys(training_history) = StepEpochs
    /\ ~single_gpu_or_rank_zero => training_history = << >>

C33_Witness ==
    /\ phase = "RUNNING" /\ pc = "for"
    /\ conf.distributed /\ rank = 1
    /\ Len(StepEpochs) = 2 /\ Len(Executed) = 2

\* The epochs that are keys of train_losses in some persisted summary.
PersistedKeys ==
    UNION { {summaries[i].train_losses[j] :
               j \in 1..Len(summaries[i].train_losses)} :
            i \in 1..Len(summaries) }

\* C34: the history is empty when train() begins, also after set_train
\* loaded a resume checkpoint, and every key of the history and of the
\* train_losses of a persisted summary is an epoch executed by this
\* invocation, which in a resumed run is at least last_epoch + 1 of the
\* loaded summary.
C34_HistoryStartsEmpty ==
    /\ pc = "idle" => training_history = << >>
    /\ \A e \in HistoryEpochs(training_history) \cup PersistedKeys :
          /\ \E i \in 1..Len(Executed) : Executed[i] = e
          /\ resume.kind = "existing" => e >= resume.last_epoch + 1

C34_Witness ==
    /\ resume.kind = "existing" /\ resume.last_epoch = 1
    /\ phase = "COMPLETED"
    /\ PersistedKeys = {2, 3}

\* C35: every summary that _save_summary persisted read the train_all timer
\* after end_record('train_all') of this train() invocation, on the
\* completion path and on the interrupt path.
C35_TrainAllEndedBeforeRead ==
    \A i \in 1..Len(summaries) : summaries[i].timer = "ended"

\* ================== get_logging_dir (utils/logger.py)
\* The version directories of the project directory are the set of their
\* indices.
\* _new_logging_dir: the first index, counting from 0, whose directory does
\* not exist
RECURSIVE NewFrom(_, _)
NewFrom(dirs, version_idx) ==
    IF version_idx \in dirs THEN NewFrom(dirs, version_idx + 1)
    ELSE version_idx
NewVersion(dirs) == NewFrom(dirs, 0)

\* _find_logging_dir: from index 0, go on while the directory of the next
\* index exists
RECURSIVE FindFrom(_, _)
FindFrom(dirs, version_idx) ==
    IF (version_idx + 1) \in dirs THEN FindFrom(dirs, version_idx + 1)
    ELSE version_idx
FindVersion(dirs) == FindFrom(dirs, 0)

LogDirInit ==
    /\ NoRun
    /\ \E d \in SUBSET (0..MaxVersion), dist \in BOOLEAN :
         probe = [op |-> "logdir", distributed |-> dist,
                  before |-> d, dirs |-> d,
                  pc |-> [r \in Ranks |->
                            IF r = 0 THEN "new"
                            ELSE IF dist THEN "recv" ELSE "absent"],
                  sent |-> {}, received |-> {},
                  logging_dir |-> [r \in Ranks |-> 0 - 1]]

\* _new_logging_dir(output_root_dir, project_id): by the only process of a
\* run that is not distributed, which returns it, or by rank 0
LogDirNew ==
    /\ probe.op = "logdir"
    /\ probe.pc[0] = "new"
    /\ LET k == NewVersion(probe.dirs)
       IN  probe' = [probe EXCEPT
                       !.dirs = @ \cup {k},
                       !.logging_dir[0] = k,
                       !.pc[0] = IF probe.distributed THEN "send"
                                 ELSE "returned"]
    /\ UNCHANGED run

\* for rank_idx in range(1, world_size): dist.send(tensor=signal, dst=rank_idx)
LogDirSend ==
    /\ probe.op = "logdir"
    /\ probe.pc[0] = "send"
    /\ LET rest == (Ranks \ {0}) \ probe.sent
       IN  IF rest = {}
             THEN probe' = [probe EXCEPT !.pc[0] = "barrier"]
             ELSE LET rank_idx == CHOOSE r \in rest : \A o \in rest : r <= o
                  IN  probe' = [probe EXCEPT !.sent = @ \cup {rank_idx}]
    /\ UNCHANGED run

\* dist.recv(tensor=signal, src=0) on a rank other than 0
LogDirRecv ==
    /\ probe.op = "logdir"
    /\ \E r \in Ranks \ {0} :
         /\ probe.pc[r] = "recv"
         /\ r \in probe.sent
         /\ probe' = [probe EXCEPT !.received = @ \cup {r},
                                   !.pc[r] = "find"]
    /\ UNCHANGED run

\* logging_dir = _find_logging_dir(output_root_dir, project_id)
LogDirFind ==
    /\ probe.op = "logdir"
    /\ \E r \in Ranks \ {0} :
         /\ probe.pc[r] = "find"
         /\ probe' = [probe EXCEPT
                        !.logging_dir[r] = FindVersion(probe.dirs),
                        !.pc[r] = "barrier"]
    /\ UNCHANGED run

\* dist.barrier(); return logging_dir
LogDirBarrier ==
    /\ probe.op = "logdir"
    /\ \A r \in Ranks : probe.pc[r] = "barrier"
    /\ probe' = [probe EXCEPT !.pc = [r \in Ranks |-> "returned"]]
    /\ UNCHANGED run

LogDirNext ==
    LogDirNew \/ LogDirSend \/ LogDirRecv \/ LogDirFind \/ LogDirBarrier

LogDirSpec == LogDirInit /\ [][LogDirNext]_vars

\* C36: in distributed mode rank 0 has created version_k, k the least index
\* without a directory, before it signals a rank; another rank looks the
\* directory up only after it received the signal; and all ranks return the
\* same directory, which did not exist before the call.
C36_SameNewDirOnEveryRank ==
    (probe.op = "logdir" /\ probe.distributed) =>
      /\ probe.sent # {} =>
            /\ probe.logging_dir[0] = NewVersion(probe.before)
            /\ probe.logging_dir[0] \in probe.dirs
      /\ \A r \in Ranks \ {0} :
            probe.pc[r] \in {"barrier", "returned"} => r \in probe.received
      /\ probe.received \subseteq probe.sent
      /\ (\A r \in Ranks : probe.pc[r] = "returned") =>
            \A r \in Ranks :
               /\ probe.logging_dir[r] = probe.logging_dir[0]
               /\ probe.logging_dir[r] \notin probe.before

\* ================== AnchorGenerator (anchor_generator.py)
\* A tuple of sizes or of aspect ratios is the sequence of its elements; a
\* feature map is its height and width, here equal.
ImageSize == 512

Min(a, b) == IF a < b THEN a ELSE b

\* The tuples of c elements, one per level, for n levels
Nested(n, c) == [i \in 1..n |-> [j \in 1..c |-> j]]

\* generate_anchors(scales, aspect_ratios): one base anchor for every pair
\* of an aspect ratio and a scale, the ratios outermost
generate_anchors(scales, aspect_ratios) ==
    [k \in 1..(Len(aspect_ratios) * Len(scales)) |->
       [ratio |-> aspect_ratios[((k - 1) \div Len(scales)) + 1],
        scale |-> scales[((k - 1) % Len(scales)) + 1]]]

\* self.cell_anchors: zip(sizes, aspect_ratios) stops at the shorter one
cell_anchors(sizes, aspect_ratios) ==
    [i \in 1..Min(Len(sizes), Len(aspect_ratios)) |->
       generate_anchors(sizes[i], aspect_ratios[i])]

\* [len(s) * len(a) for s, a in zip(self.sizes, self.aspect_ratios)]
num_anchors_per_location(sizes, aspect_ratios) ==
    [i \in 1..Min(Len(sizes), Len(aspect_ratios)) |->
       Len(sizes[i]) * Len(aspect_ratios[i])]

\* grid_anchors: for every level the base anchors shifted to every cell of
\* the grid, the cells stride apart
grid_anchors(cells, grid_sizes) ==
    [i \in 1..Len(cells) |->
       [grid |-> grid_sizes[i],
        stride |-> ImageSize \div grid_sizes[i],
        boxes |-> grid_sizes[i] * grid_sizes[i] * Len(cells[i])]]

\* `if self.anchors_over_all_feature_maps:` taken as never true
TruthyNever(stored) == FALSE
\* `if self.anchors_over_all_feature_maps:`: neither None nor an empty list
Truthy(stored) == stored.set /\ stored.value # << >>

\* The lists of feature maps given to forward.
FeatureMaps == UNION {[1..k -> 1..MaxGrid] : k \in 0..MaxLevels}

NoAnchors == [set |-> FALSE, value |-> << >>]

AnchorInit ==
    /\ NoRun
    /\ \E ls \in 1..MaxLevels, la \in 1..MaxLevels,
          cs \in 1..MaxPerLevel, ca \in 1..MaxPerLevel :
         probe = [op |-> "anchor",
                  sizes |-> Nested(ls, cs), aspect_ratios |-> Nested(la, ca),
                  anchors_over_all_feature_maps |-> NoAnchors,
                  first |-> NoAnchors, first_maps |-> << >>,
                  n |-> 0, computed |-> 0, other_maps |-> FALSE,
                  last |-> [kind |-> "none", value |-> << >>]]

\* forward(feature_maps)
AnchorForward ==
    /\ probe.op = "anchor"
    /\ probe.n < MaxForward
    /\ \E feature_maps \in FeatureMaps :
         LET stored == probe.anchors_over_all_feature_maps
             cells == cell_anchors(probe.sizes, probe.aspect_ratios)
             anchors == grid_anchors(cells, feature_maps)
         IN  IF Truthy(stored)
               THEN probe' = [probe EXCEPT
                       !.n = @ + 1,
                       !.other_maps = @ \/ feature_maps # probe.first_maps,
                       !.last = [kind |-> "returned", value |-> stored.value]]
             ELSE IF feature_maps = << >>
               THEN probe' = [probe EXCEPT
                       !.n = @ + 1,
                       !.last = [kind |-> "IndexError", value |-> << >>]]
             ELSE IF Len(feature_maps) # Len(cells)
               THEN probe' = [probe EXCEPT
                       !.n = @ + 1,
                       !.last = [kind |-> "AssertionError", value |-> << >>]]
             ELSE probe' = [probe EXCEPT
                       !.n = @ + 1,
                       !.computed = @ + 1,
                       !.anchors_over_all_feature_maps =
                          [set |-> TRUE, value |-> anchors],
                       !.first = IF @.set THEN @
                                 ELSE [set |-> TRUE, value |-> anchors],
                       !.first_maps = IF probe.first.set THEN @
                                      ELSE feature_maps,
                       !.other_maps = @ \/ (probe.first.set
                                             /\ feature_maps # probe.first_maps),
                       !.last = [kind |-> "returned", value |-> anchors]]
    /\ UNCHANGED run

AnchorNext == AnchorForward

AnchorSpec == AnchorInit /\ [][AnchorNext]_vars

\* C37: forward computes the anchors once, on its first call that returns,
\* and stores them; every later call returns these stored anchors without
\* computing, whatever the sizes of its feature maps; and the number of
\* anchors per location of level i is len(sizes[i]) * len(aspect_ratios[i]),
\* which is the number of base anchors of the level.
C37_AnchorsComputedOnce ==
    probe.op = "anchor" =>
      /\ probe.computed <= 1
      /\ probe.first.set = (probe.computed = 1)
      /\ probe.first.set =>
            probe.anchors_over_all_feature_maps = probe.first
      /\ probe.last.kind = "returned" =>
            /\ probe.first.set
            /\ probe.last.value = probe.first.value
            /\ probe.last.value
                 = grid_anchors(cell_anchors(probe.sizes, probe.aspect_ratios),
                                probe.first_maps)
      /\ LET per == num_anchors_per_location(probe.sizes, probe.aspect_ratios)
             cells == cell_anchors(probe.sizes, probe.aspect_ratios)
         IN  /\ Len(per) = Len(cells)
             /\ \A i \in 1..Len(cells) :
                   /\ per[i] = Len(probe.sizes[i]) * Len(probe.aspect_ratios[i])
                   /\ per[i] = Len(cells[i])

C37_Witness ==
    /\ probe.op = "anchor" /\ probe.n = 3 /\ probe.computed = 1
    /\ probe.first_maps = << 2, 1 >>
    /\ probe.other_maps
    /\ probe.last.kind = "returned"
    /\ probe.last.value[1].grid = 2
    /\ num_anchors_per_location(probe.sizes, probe.aspect_ratios) = << 4, 4 >>


============================================================================
